---- MODULE Spec2Model ----
(***************************************************************************)
(* Conversation tree reconstruction (lib/tree), the flat chronological     *)
(* thread (lib/parser.server) and the Codex decoder (lib/codex) of the     *)
(* session viewer.                                                         *)
(*                                                                         *)
(* Encoding.  A uuid is a positive integer; NoUuid (0) stands for a uuid   *)
(* or parentUuid that is undefined, null or "" (all falsy in the code).    *)
(* A timestamp is a natural number: 0 is the empty string "" (also what a  *)
(* missing timestamp becomes), and k > 0 are ISO-8601 strings of one       *)
(* format, on which both `>` and localeCompare agree with numeric order.   *)
(* A node of the forest is identified by the key under which               *)
(* buildMessageTree stored it in nodesByUuid; the heap of MessageNode      *)
(* objects is the record `nodes`.                                          *)
(***************************************************************************)
EXTENDS Integers, Sequences, FiniteSets, TLC

VARIABLES
    entries,        \* RawLogEntry[] read from the session file so far
    pc,             \* position of the session load
    thread,         \* result of buildConversationThread
    nodes,          \* heap of MessageNodes: keys (Map order), entry, children
    roots,          \* result of buildMessageTree
    activePath,     \* result of resolveActivePath
    branchPoints,   \* result of getBranchPoints
    cxEntries,      \* CodexRawEntry[] consumed so far by buildCodexMessages
    cxPc,           \* position of buildCodexMessages
    messages,       \* buildCodexMessages: messages
    msgIndex,       \* buildCodexMessages: msgIndex
    currentAssistantBlocks,     \* buildCodexMessages: pending blocks
    currentAssistantTimestamp,  \* buildCodexMessages: pending timestamp
    mdEntries,      \* CodexRawEntry[] consumed so far by extractCodexMetadata
    meta,           \* extractCodexMetadata: meta
    mmPc,           \* position of the minimap computation
    contentLengths, \* computeBarHeights: contentLengths
    totalHeight,    \* computeBarHeights: totalHeight
    minBarHeight,   \* computeBarHeights: minBarHeight
    barHeights,     \* the heights of the bars of the main spine
    clickY,         \* hitTestMessageIndex: clickY
    hitIndex,       \* result of hitTestMessageIndex
    layoutPoints,   \* computeBranchLayout: branchPoints
    branches,       \* result of computeBranchLayout
    pathSelections, \* session view: pathSelections (fork uuid -> path index)
    effectiveMessages,  \* InfiniteMessageList: effectiveMessages
    scrollToIndex,  \* session view: scrollToIndex (NoIndex is null)
    renderedCount,  \* InfiniteMessageList: renderedCount
    viewedSession,  \* session view: data.sessionId of the loader data
    effectSession,  \* data.sessionId for which the reset effect last ran
    diskMtime,      \* data directory: mtime of each session file (0: no file)
    projects,       \* table projects: dir_id -> row
    sessions,       \* table sessions: session_id -> row
    lastOp,         \* the last call made on the index
    initPromise,    \* db.server: _initPromise
    initRun,        \* the run of initDb started by ensureInitialized
    initStarts,     \* number of times initDb was started
    rescans,        \* runs of rescanDb in flight
    callers         \* position of each ensureInitialized caller

vars == <<entries, pc, thread, nodes, roots, activePath, branchPoints,
          cxEntries, cxPc, messages, msgIndex,
          currentAssistantBlocks, currentAssistantTimestamp,
          mdEntries, meta,
          mmPc, contentLengths, totalHeight, minBarHeight, barHeights,
          clickY, hitIndex, layoutPoints, branches,
          pathSelections, effectiveMessages,
          scrollToIndex, renderedCount, viewedSession, effectSession,
          diskMtime, projects, sessions, lastOp,
          initPromise, initRun, initStarts, rescans, callers>>

codexVars == <<cxEntries, cxPc, messages, msgIndex,
               currentAssistantBlocks, currentAssistantTimestamp>>

treeVars == <<entries, pc, thread, nodes, roots, activePath, branchPoints>>

metaVars == <<mdEntries, meta>>

minimapVars == <<mmPc, contentLengths, totalHeight, minBarHeight, barHeights,
                 clickY, hitIndex, layoutPoints, branches>>

viewVars == <<pathSelections, effectiveMessages>>

scrollVars == <<scrollToIndex, renderedCount, viewedSession, effectSession>>

dbVars == <<diskMtime, projects, sessions, lastOp>>

initVars == <<initPromise, initRun, initStarts, rescans, callers>>

serverVars == <<dbVars, initVars>>

\* ------------------------------------------------------------------ bounds
MaxEntries == 4     \* records in one session file
MaxTs == 2          \* distinct non-empty timestamps
MaxBatch == 3       \* records in one file of arbitrary (unfiltered) lines
MaxEvents == 3      \* Codex events in one file

NoUuid == 0
EmptyTs == 0
NoIndex == -1       \* null, for an index
MaxCallers == 3     \* requests awaiting ensureInitialized

\* ------------------------------------------------------- generic helpers
Range(s) == {s[i] : i \in DOMAIN s}

\* Number of positions of s holding x.
Count(s, x) == Cardinality({i \in DOMAIN s : s[i] = x})

\* -------------------------------------------------- Map<string, T> (JS)
\* A JS Map iterates in the order of first insertion; set() on a present
\* key replaces the value and keeps the key's position.
EmptyMap == [keys |-> <<>>, val |-> <<>>]

MapHas(m, k) == \E i \in DOMAIN m.keys : m.keys[i] = k

MapSetFirstWins(m, k, v) ==
    IF MapHas(m, k) THEN m
    ELSE [keys |-> Append(m.keys, k), val |-> Append(m.val, v)]

MapSet(m, k, v) ==
    IF MapHas(m, k)
    THEN [keys |-> m.keys,
          val  |-> [i \in DOMAIN m.val |-> IF m.keys[i] = k THEN v ELSE m.val[i]]]
    ELSE [keys |-> Append(m.keys, k), val |-> Append(m.val, v)]

MapGet(m, k) == m.val[CHOOSE i \in DOMAIN m.keys : m.keys[i] = k]

\* --------------------------------------------------------- tree.ts: parse
\* The three `continue` guards shared by buildMessageTree and
\* buildConversationThread.
QualifiesIgnoringType(e) ==
    /\ ~(e.uuid = NoUuid \/ ~e.hasMessage)
    /\ ~e.isMeta

Qualifies(e) ==
    /\ e.type \in {"user", "assistant"}
    /\ ~(e.uuid = NoUuid \/ ~e.hasMessage)
    /\ ~e.isMeta

entryToParsedMessage(e) ==
    [uuid       |-> e.uuid,
     parentUuid |-> e.parentUuid,
     type       |-> e.type,
     timestamp  |-> e.timestamp,
     content    |-> e.content]

\* First pass of buildMessageTree: nodesByUuid.set(entry.uuid, node).
RECURSIVE FirstPass(_, _, _)
FirstPass(es, i, m) ==
    IF i > Len(es) THEN m
    ELSE FirstPass(es, i + 1,
                   IF Qualifies(es[i])
                   THEN MapSet(m, es[i].uuid, entryToParsedMessage(es[i]))
                   ELSE m)

\* Second pass: iterate nodesByUuid in Map order, push each node onto its
\* parent's children or onto roots.  acc = [children, roots].
HasParentIgnoringLookup(m, msg) == msg.parentUuid # NoUuid

HasParent(m, msg) == msg.parentUuid # NoUuid /\ MapHas(m, msg.parentUuid)

RECURSIVE SecondPass(_, _, _)
SecondPass(m, i, acc) ==
    IF i > Len(m.keys) THEN acc
    ELSE LET k == m.keys[i]
             p == m.val[i].parentUuid
         IN SecondPass(m, i + 1,
              IF HasParent(m, m.val[i])
              THEN [children |-> [acc.children EXCEPT ![p] = Append(@, k)],
                    roots    |-> acc.roots]
              ELSE [children |-> acc.children,
                    roots    |-> Append(acc.roots, k)])

\* buildMessageTree returning every node as a root, linked or not.
buildMessageTreeAllRoots(es) ==
    LET m   == FirstPass(es, 1, EmptyMap)
        acc == SecondPass(m, 1, [children |-> [k \in Range(m.keys) |-> <<>>],
                                 roots    |-> <<>>])
    IN [nodes |-> [keys     |-> m.keys,
                   entry    |-> [k \in Range(m.keys) |-> MapGet(m, k)],
                   children |-> acc.children],
        roots |-> m.keys]

buildMessageTree(es) ==
    LET m   == FirstPass(es, 1, EmptyMap)
        acc == SecondPass(m, 1, [children |-> [k \in Range(m.keys) |-> <<>>],
                                 roots    |-> <<>>])
    IN [nodes |-> [keys     |-> m.keys,
                   entry    |-> [k \in Range(m.keys) |-> MapGet(m, k)],
                   children |-> acc.children],
        roots |-> acc.roots]

\* ------------------------------------------------ tree.ts: path resolution
\* deepestTimestamp(node): latest timestamp in the subtree.
RECURSIVE deepestTimestamp(_, _)
RECURSIVE LatestOver(_, _, _, _)
LatestOver(h, cs, i, latest) ==
    IF i > Len(cs) THEN latest
    ELSE LET childTs == deepestTimestamp(h, cs[i])
         IN LatestOver(h, cs, i + 1, IF childTs > latest THEN childTs ELSE latest)

deepestTimestamp(h, n) == LatestOver(h, h.children[n], 1, h.entry[n].timestamp)

\* arr.reduce((best, r) => deepestTimestamp(r) > deepestTimestamp(best) ? r : best)
RECURSIVE ReduceFrom(_, _, _, _)
ReduceFrom(h, arr, i, best) ==
    IF i > Len(arr) THEN best
    ELSE ReduceFrom(h, arr, i + 1,
                    IF deepestTimestamp(h, arr[i]) > deepestTimestamp(h, best)
                    THEN arr[i] ELSE best)

RECURSIVE ReduceFromLastWins(_, _, _, _)
ReduceFromLastWins(h, arr, i, best) ==
    IF i > Len(arr) THEN best
    ELSE ReduceFromLastWins(h, arr, i + 1,
                    IF deepestTimestamp(h, arr[i]) >= deepestTimestamp(h, best)
                    THEN arr[i] ELSE best)

LatestOfLastWins(h, arr) == ReduceFromLastWins(h, arr, 2, arr[1])

LatestOf(h, arr) == ReduceFrom(h, arr, 2, arr[1])

\* The while loop shared by resolveActivePath and flattenBranch: from node
\* n, push n's entry and descend into the latest child until a leaf.
RECURSIVE Descend(_, _)
Descend(h, n) ==
    <<h.entry[n]>> \o
    (IF Len(h.children[n]) > 0 THEN Descend(h, LatestOf(h, h.children[n])) ELSE <<>>)

RECURSIVE DescendLastWins(_, _)
DescendLastWins(h, n) ==
    <<h.entry[n]>> \o
    (IF Len(h.children[n]) > 0
     THEN DescendLastWins(h, LatestOfLastWins(h, h.children[n])) ELSE <<>>)

\* flattenBranch stopping at the node it is given.
flattenBranchHeadOnly(h, n) == <<h.entry[n]>>

flattenBranch(h, n) == Descend(h, n)

resolveActivePathLastWins(h, rs) ==
    IF Len(rs) = 0 THEN <<>> ELSE DescendLastWins(h, LatestOfLastWins(h, rs))

resolveActivePath(h, rs) ==
    IF Len(rs) = 0 THEN <<>> ELSE Descend(h, LatestOf(h, rs))

\* ----------------------------------------------- tree.ts: getBranchPoints
\* collectNodes: preorder walk from the roots, map.set(uuid, node).
RECURSIVE collectNodes(_, _, _)
RECURSIVE CollectEach(_, _, _, _)
CollectEach(h, ns, i, m) ==
    IF i > Len(ns) THEN m
    ELSE CollectEach(h, ns, i + 1,
                     collectNodes(h, h.children[ns[i]],
                                  MapSet(m, h.entry[ns[i]].uuid, ns[i])))

collectNodes(h, ns, m) == CollectEach(h, ns, 1, m)

\* [...children].sort((a, b) => deepestTimestamp(b).localeCompare(deepestTimestamp(a)))
\* Array.prototype.sort is stable: x goes behind every element that is not
\* older than it.
RECURSIVE InsertNewestFirst(_, _, _)
InsertNewestFirst(h, sorted, x) ==
    IF sorted = <<>> THEN <<x>>
    ELSE IF deepestTimestamp(h, Head(sorted)) >= deepestTimestamp(h, x)
         THEN <<Head(sorted)>> \o InsertNewestFirst(h, Tail(sorted), x)
         ELSE <<x>> \o sorted

RECURSIVE SortFrom(_, _, _, _)
SortFrom(h, cs, i, sorted) ==
    IF i > Len(cs) THEN sorted
    ELSE SortFrom(h, cs, i + 1, InsertNewestFirst(h, sorted, cs[i]))

sortedChildrenOldestFirst(h, cs) ==
    LET s == SortFrom(h, cs, 1, <<>>)
    IN [i \in DOMAIN s |-> s[Len(s) + 1 - i]]

sortedChildren(h, cs) == SortFrom(h, cs, 1, <<>>)

IsForkOrSingle(h, n) == Len(h.children[n]) >= 1

IsFork(h, n) == Len(h.children[n]) > 1

RECURSIVE BranchLoop(_, _, _, _, _)
BranchLoop(h, byUuid, path, i, bps) ==
    IF i > Len(path) THEN bps
    ELSE LET msg == path[i]
         IN IF ~MapHas(byUuid, msg.uuid) \/ ~IsFork(h, MapGet(byUuid, msg.uuid))
            THEN BranchLoop(h, byUuid, path, i + 1, bps)
            ELSE LET node == MapGet(byUuid, msg.uuid)
                     sc   == sortedChildren(h, h.children[node])
                 IN BranchLoop(h, byUuid, path, i + 1,
                      Append(bps,
                        [messageIndex    |-> i - 1,
                         forkMessageUuid |-> msg.uuid,
                         paths |-> [j \in DOMAIN sc |-> flattenBranch(h, sc[j])]]))

getBranchPoints(h, rs, path) ==
    BranchLoop(h, collectNodes(h, rs, EmptyMap), path, 1, <<>>)

\* node.children.sort(...): the sort applied to the node's own list.
childrenAfterSortInPlace(h, node) == sortedChildren(h, h.children[node])

\* [...node.children].sort(...): the spread copies the list, the sort
\* reorders the copy; this is node.children after the statement.
childrenAfterSort(h, node) == h.children[node]

\* The forks getBranchPoints visits: the nodes of the messages of the path
\* that have more than one child.
VisitedForks(h, byUuid, path) ==
    {MapGet(byUuid, path[i].uuid) :
        i \in {j \in DOMAIN path :
                  /\ MapHas(byUuid, path[j].uuid)
                  /\ IsFork(h, MapGet(byUuid, path[j].uuid))}}

\* The heap of nodes as getBranchPoints leaves it.
heapAfterGetBranchPoints(h, rs, path) ==
    LET forks == VisitedForks(h, collectNodes(h, rs, EmptyMap), path)
    IN [h EXCEPT !.children =
          [k \in DOMAIN h.children |->
              IF k \in forks THEN childrenAfterSort(h, k) ELSE h.children[k]]]

\* ------------------------------- parser.server.ts: buildConversationThread
\* The sort as an unstable one: equal timestamps end up in reverse order.
RECURSIVE InsertByTimestampUnstable(_, _)
InsertByTimestampUnstable(sorted, x) ==
    IF sorted = <<>> THEN <<x>>
    ELSE IF Head(sorted).timestamp < x.timestamp
         THEN <<Head(sorted)>> \o InsertByTimestampUnstable(Tail(sorted), x)
         ELSE <<x>> \o sorted

\* messages.sort((a, b) => a.timestamp.localeCompare(b.timestamp)), stable.
RECURSIVE InsertByTimestamp(_, _)
InsertByTimestamp(sorted, x) ==
    IF sorted = <<>> THEN <<x>>
    ELSE IF Head(sorted).timestamp <= x.timestamp
         THEN <<Head(sorted)>> \o InsertByTimestamp(Tail(sorted), x)
         ELSE <<x>> \o sorted

RECURSIVE SortByTimestamp(_, _, _)
SortByTimestamp(ms, i, sorted) ==
    IF i > Len(ms) THEN sorted
    ELSE SortByTimestamp(ms, i + 1, InsertByTimestamp(sorted, ms[i]))

RECURSIVE ThreadLoop(_, _, _)
ThreadLoop(es, i, ms) ==
    IF i > Len(es) THEN ms
    ELSE ThreadLoop(es, i + 1,
                    IF Qualifies(es[i])
                    THEN Append(ms, entryToParsedMessage(es[i])) ELSE ms)

buildConversationThread(es) == SortByTimestamp(ThreadLoop(es, 1, <<>>), 1, <<>>)

\* ------------------------------------------- session index (lib/db.server)
MaxMtime == 2       \* times a session file is written

\* The project directories of the data directory, as discoverProjects
\* returns them (sorted by dirId).  A dirId "-Users-a-b-c" is the sequence
\* of its "-"-separated segments; no dirId is a prefix of another, so no
\* name is rewritten as a sub-project.
ProjectDirs ==
    << <<"Users", "alice", "app">>, <<"Users", "alice", "tmp">>,
       <<"Users", "bob", "tmp">> >>

\* The session files that get written: the directory each lives in and the
\* words of its first prompt.  A session id is a position in this list.
SessionFiles ==
    << [dir |-> ProjectDirs[2], first_prompt |-> {"warmup"}],
       [dir |-> ProjectDirs[2], first_prompt |-> {"fix", "login"}],
       [dir |-> ProjectDirs[3], first_prompt |-> {"fix", "build"}] >>

SessionIds == DOMAIN SessionFiles

Queries == {"warmup", "fix", "deploy"}

\* dirName.slice(1).split("-").slice(2).join("-")
parseProjectName(dirName) == SubSeq(dirName, 3, Len(dirName))

ProjectNames == {parseProjectName(ProjectDirs[i]) : i \in DOMAIN ProjectDirs}

\* The segments that are eight hexadecimal digits.
Hex8 == {"0a1b2c3d"}

\* /^.+-work-[0-9a-f]{8}-/ | startsWith("toil-") | === "tmp"
shouldAutoHide(name) ==
    \/ \E i \in 2..Len(name) :
          /\ name[i] = "work"
          /\ i + 2 <= Len(name)
          /\ name[i + 1] \in Hex8
    \/ Len(name) >= 2 /\ name[1] = "toil"
    \/ name = <<"tmp">>

\* An upsert whose conflict clause also sets hidden = excluded.hidden.
upsertProjectResettingHidden(rows, dirId, name, hidden) ==
    [d \in DOMAIN rows \cup {dirId} |->
        IF d = dirId THEN [name |-> name, hidden |-> hidden] ELSE rows[d]]

\* INSERT INTO projects (..., hidden) ... ON CONFLICT(dir_id) DO UPDATE SET
\* name, path, user, hostname
upsertProject(rows, dirId, name, hidden) ==
    IF dirId \in DOMAIN rows
    THEN [rows EXCEPT ![dirId].name = name]
    ELSE [d \in DOMAIN rows \cup {dirId} |->
            IF d = dirId THEN [name |-> name, hidden |-> hidden] ELSE rows[d]]

\* INSERT INTO sessions (... no hidden: DEFAULT 0) ... ON CONFLICT(session_id)
\* DO UPDATE SET project_dir_id, first_prompt, ..., file_mtime, user
upsertSession(rows, sessionId, dirId, firstPrompt, mtime) ==
    IF sessionId \in DOMAIN rows
    THEN [rows EXCEPT ![sessionId].project_dir_id = dirId,
                      ![sessionId].first_prompt = firstPrompt,
                      ![sessionId].file_mtime = mtime]
    ELSE [s \in DOMAIN rows \cup {sessionId} |->
            IF s = sessionId
            THEN [project_dir_id |-> dirId, first_prompt |-> firstPrompt,
                  file_mtime |-> mtime, hidden |-> FALSE]
            ELSE rows[s]]

\* discoverSessions: the .jsonl files of one project directory.
discoverSessions(dirId, mtimes) ==
    SelectSeq([s \in SessionIds |-> s],
              LAMBDA s : SessionFiles[s].dir = dirId /\ mtimes[s] > 0)

\* for (const fileInfo of sessionFiles) { ... upsertSession.run(...) }
RECURSIVE ImportSessionsLoop(_, _, _, _, _)
ImportSessionsLoop(rows, dirId, sessionFiles, mtimes, k) ==
    IF k > Len(sessionFiles) THEN rows
    ELSE LET sessionId == sessionFiles[k]
             mtime == mtimes[sessionId]
             existing == sessionId \in DOMAIN rows
         IN IF existing /\ rows[sessionId].file_mtime >= mtime
            THEN ImportSessionsLoop(rows, dirId, sessionFiles, mtimes, k + 1)
            ELSE ImportSessionsLoop(
                     upsertSession(rows, sessionId, dirId,
                                   SessionFiles[sessionId].first_prompt, mtime),
                     dirId, sessionFiles, mtimes, k + 1)

\* for (const project of projects) { upsertProject...; sessions... }
RECURSIVE ImportProjectsLoop(_, _, _, _, _)
ImportProjectsLoop(db, dirs, mtimes, seenDirIds, i) ==
    IF i > Len(dirs) THEN db
    ELSE LET dirId == dirs[i]
             name == parseProjectName(dirId)
             rows == IF dirId \notin seenDirIds
                     THEN upsertProject(db.projects, dirId, name, shouldAutoHide(name))
                     ELSE db.projects
             after == ImportSessionsLoop(db.sessions, dirId,
                                         discoverSessions(dirId, mtimes), mtimes, 1)
         IN ImportProjectsLoop([projects |-> rows, sessions |-> after],
                               dirs, mtimes, seenDirIds \cup {dirId}, i + 1)

importProjects(db, dirs, mtimes) == ImportProjectsLoop(db, dirs, mtimes, {}, 1)

\* UPDATE projects ... WHERE name = ? alone: the sessions keep their flag.
setProjectHiddenNoCascade(db, projectName, hidden) ==
    [projects |-> [d \in DOMAIN db.projects |->
                     IF db.projects[d].name = projectName
                     THEN [db.projects[d] EXCEPT !.hidden = hidden]
                     ELSE db.projects[d]],
     sessions |-> db.sessions]

\* UPDATE projects SET hidden = ? WHERE name = ?; UPDATE sessions SET hidden = ?
\* WHERE project_dir_id IN (SELECT dir_id FROM projects WHERE name = ?)
setProjectHidden(db, projectName, hidden) ==
    [projects |-> [d \in DOMAIN db.projects |->
                     IF db.projects[d].name = projectName
                     THEN [db.projects[d] EXCEPT !.hidden = hidden]
                     ELSE db.projects[d]],
     sessions |-> [s \in DOMAIN db.sessions |->
                     IF /\ db.sessions[s].project_dir_id \in DOMAIN db.projects
                        /\ db.projects[db.sessions[s].project_dir_id].name = projectName
                     THEN [db.sessions[s] EXCEPT !.hidden = hidden]
                     ELSE db.sessions[s]]]

\* SELECT p.name, MIN(p.hidden), COUNT(...) FROM projects p LEFT JOIN sessions s
\* [WHERE p.hidden = 0] GROUP BY p.name
getProjects(db, includeHidden) ==
    LET shown == {d \in DOMAIN db.projects : includeHidden \/ ~db.projects[d].hidden}
        group(n) == {d \in shown : db.projects[d].name = n}
    IN {[name |-> n,
         hidden |-> \A d \in group(n) : db.projects[d].hidden,
         sessionCount |-> Cardinality(
             {s \in DOMAIN db.sessions :
                 /\ db.sessions[s].project_dir_id \in group(n)
                 /\ includeHidden \/ ~db.sessions[s].hidden})] :
        n \in {db.projects[d].name : d \in shown}}

\* SELECT ... FROM sessions WHERE project_dir_id IN (SELECT dir_id FROM
\* projects WHERE name = ?) [AND hidden = 0]   (the session ids of the rows)
getSessionsByProject(db, projectName, includeHidden) ==
    {s \in DOMAIN db.sessions :
        /\ \E d \in DOMAIN db.projects :
              db.projects[d].name = projectName /\ db.sessions[s].project_dir_id = d
        /\ includeHidden \/ ~db.sessions[s].hidden}

\* SELECT ... FROM sessions [WHERE hidden = 0]
getAllSessions(db, includeHidden) ==
    {s \in DOMAIN db.sessions : includeHidden \/ ~db.sessions[s].hidden}

\* SELECT ... FROM sessions_fts fts JOIN sessions s WHERE sessions_fts MATCH ?
\* [AND s.hidden = 0]
searchSessions(db, query, includeHidden) ==
    {s \in DOMAIN db.sessions :
        /\ query \in db.sessions[s].first_prompt
        /\ includeHidden \/ ~db.sessions[s].hidden}

\* The database handle: the two tables.
Db == [projects |-> projects, sessions |-> sessions]

Op(op, name, hidden, rewritten) ==
    [op |-> op, name |-> name, hidden |-> hidden, rewritten |-> rewritten]

\* ------------------------------------------------------------ state machine
\* extractCodexMetadata: const meta = { sessionId: "", cwd: "", ... }
EmptyMeta ==
    [sessionId |-> <<>>, cwd |-> <<>>, originator |-> <<>>, gitBranch |-> <<>>,
     model |-> <<>>, firstPrompt |-> <<>>, created |-> EmptyTs, modified |-> EmptyTs]

EmptyHeap == [keys |-> <<>>, entry |-> <<>>, children |-> <<>>]

Init ==
    /\ entries = <<>>
    /\ pc = "reading"
    /\ thread = <<>>
    /\ nodes = EmptyHeap
    /\ roots = <<>>
    /\ activePath = <<>>
    /\ branchPoints = <<>>
    /\ cxEntries = <<>>
    /\ cxPc = "loop"
    /\ messages = <<>>
    /\ msgIndex = 0
    /\ currentAssistantBlocks = <<>>
    /\ currentAssistantTimestamp = EmptyTs
    /\ mdEntries = <<>>
    /\ meta = EmptyMeta
    /\ mmPc = "input"
    /\ contentLengths = <<>>
    /\ totalHeight = 0
    /\ minBarHeight = 0
    /\ barHeights = <<>>
    /\ clickY = 0
    /\ hitIndex = 0
    /\ layoutPoints = <<>>
    /\ branches = <<>>
    /\ pathSelections = <<>>
    /\ effectiveMessages = <<>>
    /\ scrollToIndex = NoIndex
    /\ renderedCount = 0
    /\ viewedSession = 1
    /\ effectSession = 0
    /\ diskMtime = [s \in SessionIds |-> 0]
    /\ projects = <<>>
    /\ sessions = <<>>
    /\ lastOp = Op("createDb", <<>>, FALSE, {})
    /\ initPromise = "null"
    /\ initRun = "none"
    /\ initStarts = 0
    /\ rescans = 0
    /\ callers = [c \in 1..MaxCallers |-> "idle"]

\* A line of an append-only conversation log: a user/assistant record with
\* a fresh uuid whose parent, if any, was written before it.
LogLines(n) ==
    [type       : {IF n % 2 = 1 THEN "user" ELSE "assistant"},
     uuid       : {n},
     hasMessage : {TRUE},
     isMeta     : {FALSE},
     parentUuid : {NoUuid} \cup 1..(n - 1),
     timestamp  : EmptyTs..MaxTs,
     content    : {n}]

\* parseSessionFile: one more line is read and pushed.
ParseLine ==
    /\ pc = "reading"
    /\ Len(entries) < MaxEntries
    /\ \E e \in LogLines(Len(entries) + 1) : entries' = Append(entries, e)
    /\ UNCHANGED <<pc, thread, nodes, roots, activePath, branchPoints>>
    /\ UNCHANGED <<codexVars, metaVars, minimapVars, viewVars, scrollVars, serverVars>>

BuildConversationThread ==
    /\ pc = "reading"
    /\ thread' = buildConversationThread(entries)
    /\ pc' = "thread"
    /\ UNCHANGED <<entries, nodes, roots, activePath, branchPoints>>
    /\ UNCHANGED <<codexVars, metaVars, minimapVars, viewVars, scrollVars, serverVars>>

BuildMessageTree ==
    /\ pc = "thread"
    /\ LET f == buildMessageTree(entries)
       IN nodes' = f.nodes /\ roots' = f.roots
    /\ pc' = "tree"
    /\ UNCHANGED <<entries, thread, activePath, branchPoints>>
    /\ UNCHANGED <<codexVars, metaVars, minimapVars, viewVars, scrollVars, serverVars>>

ResolveActivePath ==
    /\ pc = "tree"
    /\ activePath' = resolveActivePath(nodes, roots)
    /\ pc' = "path"
    /\ UNCHANGED <<entries, thread, nodes, roots, branchPoints>>
    /\ UNCHANGED <<codexVars, metaVars, minimapVars, viewVars, scrollVars, serverVars>>

GetBranchPoints ==
    /\ pc = "path"
    /\ branchPoints' = getBranchPoints(nodes, roots, activePath)
    /\ nodes' = heapAfterGetBranchPoints(nodes, roots, activePath)
    /\ pc' = "branches"
    /\ UNCHANGED <<entries, thread, roots, activePath>>
    /\ UNCHANGED <<codexVars, metaVars, minimapVars, viewVars, scrollVars, serverVars>>

\* A line of any shape a session file can hold.  Each excluded shape fails
\* exactly one guard of the filter.  Uuids are interchangeable, so a line
\* introduces at most one uuid not seen before; a parentUuid may name any
\* uuid (an earlier line, a later one, the line itself, or none).
UsedUuids(es) == {es[i].uuid : i \in DOMAIN es} \ {NoUuid}

NextUuids(es) == 1..(Cardinality(UsedUuids(es)) + 1)

Clock(n) == IF n > MaxTs THEN MaxTs ELSE n

AnyLines(es) ==
    LET n == Len(es) + 1 IN
    [type       : {IF n % 2 = 1 THEN "user" ELSE "assistant"},
     uuid       : NextUuids(es),
     hasMessage : {TRUE},
     isMeta     : {FALSE},
     parentUuid : {NoUuid} \cup 1..MaxBatch,
     timestamp  : {Clock(n)},
     content    : {n}]
    \cup
    [type       : {"progress", "system"},
     uuid       : NextUuids(es),
     hasMessage : {TRUE},
     isMeta     : {FALSE},
     parentUuid : {NoUuid},
     timestamp  : {Clock(n)},
     content    : {n}]
    \cup
    [type       : {"user"},
     uuid       : NextUuids(es),
     hasMessage : BOOLEAN,
     isMeta     : BOOLEAN,
     parentUuid : {NoUuid},
     timestamp  : {Clock(n)},
     content    : {n}]
    \cup
    [type       : {"user"},
     uuid       : {NoUuid},
     hasMessage : {TRUE},
     isMeta     : {FALSE},
     parentUuid : {NoUuid},
     timestamp  : {Clock(n)},
     content    : {n}]

ParseAnyLine ==
    /\ pc = "reading"
    /\ Len(entries) < MaxBatch
    /\ \E e \in AnyLines(entries) : entries' = Append(entries, e)
    /\ UNCHANGED <<pc, thread, nodes, roots, activePath, branchPoints>>
    /\ UNCHANGED <<codexVars, metaVars, minimapVars, viewVars, scrollVars, serverVars>>

Next ==
    \/ ParseLine
    \/ BuildConversationThread
    \/ BuildMessageTree
    \/ ResolveActivePath
    \/ GetBranchPoints

Spec == Init /\ [][Next]_vars

NextBatch ==
    \/ ParseAnyLine
    \/ BuildConversationThread
    \/ BuildMessageTree
    \/ ResolveActivePath
    \/ GetBranchPoints

SpecBatch == Init /\ [][NextBatch]_vars

\* A consumer holding the forest calls resolveActivePath again.
ResolveActivePathAgain ==
    /\ pc \in {"branches", "again"}
    /\ activePath' = resolveActivePath(nodes, roots)
    /\ pc' = "again"
    /\ UNCHANGED <<entries, thread, nodes, roots, branchPoints>>
    /\ UNCHANGED <<codexVars, metaVars, minimapVars, viewVars, scrollVars, serverVars>>

\* A consumer holding the forest calls getBranchPoints again.
GetBranchPointsAgain ==
    /\ pc \in {"branches", "again"}
    /\ branchPoints' = getBranchPoints(nodes, roots, activePath)
    /\ nodes' = heapAfterGetBranchPoints(nodes, roots, activePath)
    /\ pc' = "again"
    /\ UNCHANGED <<entries, thread, roots, activePath>>
    /\ UNCHANGED <<codexVars, metaVars, minimapVars, viewVars, scrollVars, serverVars>>

NextForest ==
    \/ ParseLine
    \/ BuildConversationThread
    \/ BuildMessageTree
    \/ ResolveActivePath
    \/ GetBranchPoints
    \/ ResolveActivePathAgain
    \/ GetBranchPointsAgain

SpecForest == Init /\ [][NextForest]_vars

\* A line of a session file for the flat thread: a conversational record
\* or a record failing exactly one guard of the filter, with any timestamp
\* (lines of a file need not be in timestamp order).
ThreadLines(n) ==
    LET line == [type |-> IF n % 2 = 1 THEN "user" ELSE "assistant",
                 uuid |-> n, hasMessage |-> TRUE, isMeta |-> FALSE,
                 parentUuid |-> NoUuid, timestamp |-> EmptyTs, content |-> n]
    IN {[l EXCEPT !.timestamp = t] :
          l \in {line,
                 [line EXCEPT !.type = "system"],
                 [line EXCEPT !.uuid = NoUuid],
                 [line EXCEPT !.hasMessage = FALSE],
                 [line EXCEPT !.isMeta = TRUE]},
          t \in EmptyTs..MaxTs}

ParseThreadLine ==
    /\ pc = "reading"
    /\ Len(entries) < MaxBatch
    /\ \E e \in ThreadLines(Len(entries) + 1) : entries' = Append(entries, e)
    /\ UNCHANGED <<pc, thread, nodes, roots, activePath, branchPoints>>
    /\ UNCHANGED <<codexVars, metaVars, minimapVars, viewVars, scrollVars, serverVars>>

NextThread ==
    \/ ParseThreadLine
    \/ BuildConversationThread

SpecThread == Init /\ [][NextThread]_vars

\* ------------------------------------------------- codex.ts: the decoder
\* A text is a natural number, 0 being the empty string.  The summary of a
\* reasoning item is a sequence of texts; the "\n"-joined summaryText is
\* kept as the sequence of its non-empty lines (<<>> is "").
EmptyText == 0

Truthy(t) == t # EmptyText

summaryText(summary) == SelectSeq(summary, Truthy)

CodexUuid(k) == <<"codex-msg-", k>>

\* The local state of buildCodexMessages.
CodexState ==
    [messages |-> messages, msgIndex |-> msgIndex,
     blocks |-> currentAssistantBlocks, ts |-> currentAssistantTimestamp]

AssistantMessage(st) ==
    [uuid         |-> CodexUuid(st.msgIndex),
     parentUuid   |-> NoUuid,
     type         |-> "assistant",
     timestamp    |-> st.ts,
     content      |-> st.blocks,
     isSidechain  |-> FALSE,
     isToolResult |-> FALSE,
     toolResultId |-> NoUuid]

\* flushAssistant that never emits (the pending blocks stay pending).
flushAssistantNever(st) == st

flushAssistantKeepingBlocks(st) ==
    IF Len(st.blocks) = 0 THEN st
    ELSE [messages |-> Append(st.messages, AssistantMessage(st)),
          msgIndex |-> st.msgIndex + 1,
          blocks   |-> st.blocks,
          ts       |-> EmptyTs]

flushAssistant(st) ==
    IF Len(st.blocks) = 0 THEN st
    ELSE [messages |-> Append(st.messages, AssistantMessage(st)),
          msgIndex |-> st.msgIndex + 1,
          blocks   |-> <<>>,
          ts       |-> EmptyTs]

\* pushUser that reuses the index (msgIndex instead of msgIndex++).
pushUserSameIndex(st, timestamp, content, isToolResult, toolResultId) ==
    [messages |-> Append(st.messages,
                    [uuid         |-> CodexUuid(st.msgIndex),
                     parentUuid   |-> NoUuid,
                     type         |-> "user",
                     timestamp    |-> timestamp,
                     content      |-> content,
                     isSidechain  |-> FALSE,
                     isToolResult |-> isToolResult,
                     toolResultId |-> toolResultId]),
     msgIndex |-> st.msgIndex,
     blocks   |-> st.blocks,
     ts       |-> st.ts]

\* messages.push({ uuid: `codex-msg-${msgIndex++}`, type: "user", ... })
pushUser(st, timestamp, content, isToolResult, toolResultId) ==
    [messages |-> Append(st.messages,
                    [uuid         |-> CodexUuid(st.msgIndex),
                     parentUuid   |-> NoUuid,
                     type         |-> "user",
                     timestamp    |-> timestamp,
                     content      |-> content,
                     isSidechain  |-> FALSE,
                     isToolResult |-> isToolResult,
                     toolResultId |-> toolResultId]),
     msgIndex |-> st.msgIndex + 1,
     blocks   |-> st.blocks,
     ts       |-> st.ts]

\* if (!currentAssistantTimestamp) currentAssistantTimestamp = entry.timestamp
\* followed by currentAssistantBlocks.push(...) for each of blocks.
accumulate(st, timestamp, blocks) ==
    [messages |-> st.messages,
     msgIndex |-> st.msgIndex,
     blocks   |-> st.blocks \o blocks,
     ts       |-> IF st.ts = EmptyTs THEN timestamp ELSE st.ts]

TextBlock(t) == [type |-> "text", text |-> t]
ThinkingBlock(t) == [type |-> "thinking", thinking |-> t]
ToolUseBlock(id, name, input) ==
    [type |-> "tool_use", id |-> id, name |-> name, input |-> input]
ToolResultBlock(id, content) ==
    [type |-> "tool_result", tool_use_id |-> id, content |-> content]

\* JSON.parse(String(p.arguments || "{}")), { raw: ... } when it throws.
parsedArgs(e) ==
    IF e.argsValid THEN [json |-> e.text] ELSE [raw |-> e.text]

customInput(e) ==
    IF e.name = "apply_patch" THEN [patch |-> e.text] ELSE [input |-> e.text]

\* One CodexRawEntry.  Lines are appended to the log as they happen, each
\* stamped with the time of writing: entry n carries timestamp n.
CodexEntry(n, type, ptype) ==
    [timestamp |-> n, type |-> type, ptype |-> ptype, text |-> n,
     call_id |-> NoUuid, name |-> "", argsValid |-> TRUE, summary |-> <<>>]

CallIds == {1, 2}

Consume(e, st) ==
    /\ cxEntries' = Append(cxEntries, e)
    /\ messages' = st.messages
    /\ msgIndex' = st.msgIndex
    /\ currentAssistantBlocks' = st.blocks
    /\ currentAssistantTimestamp' = st.ts
    /\ UNCHANGED <<cxPc, entries, pc, thread, nodes, roots, activePath, branchPoints>>
    /\ UNCHANGED <<metaVars, minimapVars, viewVars, scrollVars, serverVars>>

MoreEvents == cxPc = "loop" /\ Len(cxEntries) < MaxEvents

NextIndex == Len(cxEntries) + 1

UserMessage ==
    /\ MoreEvents
    /\ LET e == CodexEntry(NextIndex, "event_msg", "user_message")
       IN Consume(e, pushUser(flushAssistant(CodexState), e.timestamp,
                              <<TextBlock(e.text)>>, FALSE, NoUuid))

AgentMessage ==
    /\ MoreEvents
    /\ LET e == CodexEntry(NextIndex, "event_msg", "agent_message")
       IN Consume(e, flushAssistant(
                       accumulate(CodexState, e.timestamp, <<TextBlock(e.text)>>)))

\* token_count, agent_reasoning: nothing to do, continue.
OtherEventMsg ==
    /\ MoreEvents
    /\ Consume(CodexEntry(NextIndex, "event_msg", "token_count"), CodexState)

\* response_item of type message: continue.
ResponseMessage ==
    /\ MoreEvents
    /\ Consume(CodexEntry(NextIndex, "response_item", "message"), CodexState)

Reasoning ==
    /\ MoreEvents
    /\ \E summary \in {<<>>, <<EmptyText>>, <<EmptyText, NextIndex>>} :
         LET e == [CodexEntry(NextIndex, "response_item", "reasoning")
                     EXCEPT !.summary = summary]
             t == summaryText(e.summary)
         IN Consume(e, accumulate(CodexState, e.timestamp,
                                  IF t # <<>> THEN <<ThinkingBlock(t)>> ELSE <<>>))

FunctionCall ==
    /\ MoreEvents
    /\ \E id \in CallIds, ok \in BOOLEAN :
         LET e == [CodexEntry(NextIndex, "response_item", "function_call")
                     EXCEPT !.call_id = id, !.name = "exec_command", !.argsValid = ok]
         IN Consume(e, accumulate(CodexState, e.timestamp,
                                  <<ToolUseBlock(e.call_id, e.name, parsedArgs(e))>>))

FunctionCallOutput ==
    /\ MoreEvents
    /\ \E id \in CallIds :
         LET e == [CodexEntry(NextIndex, "response_item", "function_call_output")
                     EXCEPT !.call_id = id]
         IN Consume(e, pushUser(flushAssistant(CodexState), e.timestamp,
                                <<ToolResultBlock(e.call_id, e.text)>>, TRUE, e.call_id))

CustomToolCall ==
    /\ MoreEvents
    /\ \E id \in CallIds, name \in {"apply_patch", "other_tool"} :
         LET e == [CodexEntry(NextIndex, "response_item", "custom_tool_call")
                     EXCEPT !.call_id = id, !.name = name]
         IN Consume(e, accumulate(CodexState, e.timestamp,
                                  <<ToolUseBlock(e.call_id, e.name, customInput(e))>>))

CustomToolCallOutput ==
    /\ MoreEvents
    /\ \E id \in CallIds :
         LET e == [CodexEntry(NextIndex, "response_item", "custom_tool_call_output")
                     EXCEPT !.call_id = id]
         IN Consume(e, pushUser(flushAssistant(CodexState), e.timestamp,
                                <<ToolResultBlock(e.call_id, e.text)>>, TRUE, e.call_id))

\* session_meta, turn_context, ghost_snapshot, turn_aborted: skipped.
OtherEntry ==
    /\ MoreEvents
    /\ Consume(CodexEntry(NextIndex, "turn_context", ""), CodexState)

\* End of the entries: flush any remaining assistant content and return.
ReturnMessages ==
    /\ cxPc = "loop"
    /\ LET st == flushAssistant(CodexState)
       IN /\ messages' = st.messages
          /\ msgIndex' = st.msgIndex
          /\ currentAssistantBlocks' = st.blocks
          /\ currentAssistantTimestamp' = st.ts
    /\ cxPc' = "done"
    /\ UNCHANGED <<cxEntries, entries, pc, thread, nodes, roots, activePath, branchPoints>>
    /\ UNCHANGED <<metaVars, minimapVars, viewVars, scrollVars, serverVars>>

NextCodex ==
    \/ UserMessage
    \/ AgentMessage
    \/ OtherEventMsg
    \/ ResponseMessage
    \/ Reasoning
    \/ FunctionCall
    \/ FunctionCallOutput
    \/ CustomToolCall
    \/ CustomToolCallOutput
    \/ OtherEntry
    \/ ReturnMessages

SpecCodex == Init /\ [][NextCodex]_vars

\* ------------------------------------- codex.ts: extractCodexMetadata
\* Here a string is the sequence of its characters (<<>> is ""), so that
\* slice(0, 200) is a real truncation.  String(x || "") maps a missing or
\* empty value to "" and leaves any other string as it is.
MaxMetaEntries == 3     \* Codex entries in one file read for metadata

PromptLimit == 200

Text(c, n) == [i \in 1..n |-> c]

slice(t, from, to) ==
    IF Len(t) <= to THEN SubSeq(t, from + 1, Len(t)) ELSE SubSeq(t, from + 1, to)

\* One iteration of the loop of extractCodexMetadata.
extractStep(m, e) ==
    LET m1 == IF e.timestamp # EmptyTs
              THEN [m EXCEPT !.created = IF m.created = EmptyTs
                                         THEN e.timestamp ELSE m.created,
                             !.modified = e.timestamp]
              ELSE m
        m2 == IF e.type = "session_meta"
              THEN [m1 EXCEPT !.sessionId = e.id,
                              !.cwd = e.cwd,
                              !.originator = e.originator,
                              !.gitBranch = IF e.hasGit THEN e.branch
                                            ELSE m1.gitBranch]
              ELSE m1
        m3 == IF e.type = "turn_context" /\ m2.model = <<>>
              THEN [m2 EXCEPT !.model = e.model]
              ELSE m2
    IN IF e.type = "event_msg" /\ e.ptype = "user_message" /\ m3.firstPrompt = <<>>
       THEN [m3 EXCEPT !.firstPrompt = slice(e.message, 0, PromptLimit)]
       ELSE m3

\* Entry n of the file; its timestamp is its position in the log.
MetaEntry(n, type, ptype) ==
    [timestamp |-> n, type |-> type, ptype |-> ptype,
     id |-> <<>>, cwd |-> <<>>, originator |-> <<>>,
     hasGit |-> FALSE, branch |-> <<>>, model |-> <<>>, message |-> <<>>]

MoreMetaEntries == Len(mdEntries) < MaxMetaEntries

NextMetaIndex == Len(mdEntries) + 1

ReadMeta(e) ==
    /\ mdEntries' = Append(mdEntries, e)
    /\ meta' = extractStep(meta, e)
    /\ UNCHANGED <<treeVars, codexVars, minimapVars, viewVars, scrollVars, serverVars>>

\* A session_meta record; cwd and originator come from the same process
\* and are present or absent together.
MetaSessionMeta ==
    /\ MoreMetaEntries
    /\ LET n == NextMetaIndex
       IN \E id \in {<<>>, Text(n, 1)}, cwd \in {<<>>, Text(n, 2)},
             git \in {"none", "empty", "branch"} :
            ReadMeta([MetaEntry(n, "session_meta", "")
                        EXCEPT !.id = id, !.cwd = cwd, !.originator = cwd,
                               !.hasGit = (git # "none"),
                               !.branch = IF git = "branch" THEN Text(n, 3) ELSE <<>>])

MetaTurnContext ==
    /\ MoreMetaEntries
    /\ LET n == NextMetaIndex
       IN \E model \in {<<>>, Text(n, 1)} :
            ReadMeta([MetaEntry(n, "turn_context", "") EXCEPT !.model = model])

MetaUserMessage ==
    /\ MoreMetaEntries
    /\ LET n == NextMetaIndex
       IN \E len \in {0, PromptLimit, PromptLimit + 1} :
            ReadMeta([MetaEntry(n, "event_msg", "user_message")
                        EXCEPT !.message = Text(n, len)])

\* Any other entry (response_item, other event_msg, ghost_snapshot, ...),
\* with or without a timestamp.
MetaOtherEntry ==
    /\ MoreMetaEntries
    /\ \E ts \in {EmptyTs, NextMetaIndex} :
         ReadMeta([MetaEntry(NextMetaIndex, "response_item", "message")
                     EXCEPT !.timestamp = ts])

NextMeta ==
    \/ MetaSessionMeta
    \/ MetaTurnContext
    \/ MetaUserMessage
    \/ MetaOtherEntry

SpecMeta == Init /\ [][NextMeta]_vars

\* ------------------------------------------------- minimap.ts: the minimap
\* A JavaScript number is modelled as the exact rational <<n, d>> in lowest
\* terms with d > 0; the rounding of IEEE doubles is outside the model.
MaxBars == 3        \* messages on the main spine

Abs(x) == IF x < 0 THEN -x ELSE x

RECURSIVE GCD(_, _)
GCD(a, b) == IF b = 0 THEN a ELSE GCD(b, a % b)

Rat(n, d) ==
    LET g == GCD(Abs(n), Abs(d))
        s == IF d < 0 THEN -1 ELSE 1
    IN <<(s * n) \div g, (s * d) \div g>>

Num(k) == <<k, 1>>

Plus(a, b) == Rat(a[1] * b[2] + b[1] * a[2], a[2] * b[2])
Minus(a, b) == Rat(a[1] * b[2] - b[1] * a[2], a[2] * b[2])
Times(a, b) == Rat(a[1] * b[1], a[2] * b[2])
Over(a, b) == Rat(a[1] * b[2], a[2] * b[1])
Less(a, b) == a[1] * b[2] < b[1] * a[2]
AtLeast(a, b) == ~Less(a, b)

\* arr.reduce((a, b) => a + b, 0)
RECURSIVE SumFrom(_, _, _)
SumFrom(arr, i, acc) ==
    IF i > Len(arr) THEN acc ELSE SumFrom(arr, i + 1, Plus(acc, arr[i]))

Sum(arr) == SumFrom(arr, 1, Num(0))

\* computeBarHeights without the redistribution: an unclamped bar keeps its
\* proportional height.
computeBarHeightsNoRedistribution(lengths, height, minHeight) ==
    IF Len(lengths) = 0 THEN <<>>
    ELSE
      LET totalLength == Sum([i \in DOMAIN lengths |-> Num(lengths[i])])
          H == Num(height)
          m == Num(minHeight)
      IN IF totalLength = Num(0)
         THEN [i \in DOMAIN lengths |-> Over(H, Num(Len(lengths)))]
         ELSE
           LET raw == [i \in DOMAIN lengths |->
                         Times(Over(Num(lengths[i]), totalLength), H)]
           IN [i \in DOMAIN raw |-> IF Less(raw[i], m) THEN m ELSE raw[i]]

computeBarHeights(lengths, height, minHeight) ==
    IF Len(lengths) = 0 THEN <<>>
    ELSE
      LET totalLength == Sum([i \in DOMAIN lengths |-> Num(lengths[i])])
          H == Num(height)
          m == Num(minHeight)
      IN IF totalLength = Num(0)
         THEN [i \in DOMAIN lengths |-> Over(H, Num(Len(lengths)))]
         ELSE
           LET raw == [i \in DOMAIN lengths |->
                         Times(Over(Num(lengths[i]), totalLength), H)]
               belowMin == Len(SelectSeq(raw, LAMBDA h : Less(h, m)))
               minTotal == Times(Num(belowMin), m)
               remainingHeight == Minus(H, minTotal)
               aboveMinTotal == Sum(SelectSeq(raw, LAMBDA h : AtLeast(h, m)))
           IN IF belowMin = 0 THEN raw
              ELSE [i \in DOMAIN raw |->
                      IF Less(raw[i], m) THEN m
                      ELSE IF Less(Num(0), aboveMinTotal)
                           THEN Times(Over(raw[i], aboveMinTotal), remainingHeight)
                           ELSE raw[i]]

\* The loop of hitTestMessageIndex with <= in place of <.
RECURSIVE HitLoopInclusive(_, _, _, _)
HitLoopInclusive(y, heights, i, cumulative) ==
    IF i > Len(heights) THEN Len(heights) - 1
    ELSE LET c == Plus(cumulative, heights[i])
         IN IF ~Less(c, y) THEN i - 1 ELSE HitLoopInclusive(y, heights, i + 1, c)

hitTestInclusive(y, heights) ==
    IF Len(heights) = 0 THEN 0 ELSE HitLoopInclusive(y, heights, 1, Num(0))

\* for (let i = 0; i < barHeights.length; i++) { cumulative += ...; if ... }
\* (i is the 1-based position, the value returned is the 0-based index).
RECURSIVE HitLoop(_, _, _, _)
HitLoop(y, heights, i, cumulative) ==
    IF i > Len(heights) THEN Len(heights) - 1
    ELSE LET c == Plus(cumulative, heights[i])
         IN IF Less(y, c) THEN i - 1 ELSE HitLoop(y, heights, i + 1, c)

hitTestMessageIndex(y, heights) ==
    IF Len(heights) = 0 THEN 0 ELSE HitLoop(y, heights, 1, Num(0))

\* Estimated lengths of the messages, pixel heights of the minimap and
\* minimum bar heights the callers pass.
LengthChoices == {0, 1, 2}
HeightChoices == {0, 3, 4, 6}
MinHeightChoices == {0, 1, 2}

AddLength ==
    /\ mmPc = "input"
    /\ Len(contentLengths) < MaxBars
    /\ \E len \in LengthChoices : contentLengths' = Append(contentLengths, len)
    /\ UNCHANGED <<mmPc, totalHeight, minBarHeight, barHeights, clickY, hitIndex,
                   layoutPoints, branches>>
    /\ UNCHANGED <<treeVars, codexVars, metaVars, viewVars, scrollVars, serverVars>>

ComputeBarHeights ==
    /\ mmPc = "input"
    /\ \E h \in HeightChoices, m \in MinHeightChoices :
         /\ totalHeight' = h
         /\ minBarHeight' = m
         /\ barHeights' = computeBarHeights(contentLengths, h, m)
    /\ mmPc' = "bars"
    /\ UNCHANGED <<contentLengths, clickY, hitIndex, layoutPoints, branches>>
    /\ UNCHANGED <<treeVars, codexVars, metaVars, viewVars, scrollVars, serverVars>>

NextBars ==
    \/ AddLength
    \/ ComputeBarHeights

SpecBars == Init /\ [][NextBars]_vars

\* Offsets of a click on the minimap: on the edge of a bar, in the middle of
\* a bar, and one past the end.
Edges(heights) == {Sum(SubSeq(heights, 1, i)) : i \in 0..Len(heights)}

ClickChoices(heights) ==
    Edges(heights)
      \cup {Over(Plus(a, b), Num(2)) : a, b \in Edges(heights)}
      \cup {Plus(Sum(heights), Num(1))}

HitTest ==
    /\ mmPc = "bars"
    /\ \E y \in ClickChoices(barHeights) :
         /\ clickY' = y
         /\ hitIndex' = hitTestMessageIndex(y, barHeights)
    /\ mmPc' = "hit"
    /\ UNCHANGED <<contentLengths, totalHeight, minBarHeight, barHeights,
                   layoutPoints, branches>>
    /\ UNCHANGED <<treeVars, codexVars, metaVars, viewVars, scrollVars, serverVars>>

NextHit ==
    \/ AddLength
    \/ ComputeBarHeights
    \/ HitTest

SpecHit == Init /\ [][NextHit]_vars

\* --------------------------------------- minimap.ts: computeBranchLayout
MaxForks == 2       \* branch points handed to computeBranchLayout

\* A content block with the length of its text (text, thinking) or of its
\* serialised input / content (tool_use, tool_result).
Block(type, length) == [type |-> type, length |-> length]

RECURSIVE EstimateFrom(_, _, _)
EstimateFrom(content, i, len) ==
    IF i > Len(content) THEN len
    ELSE EstimateFrom(content, i + 1,
                      IF content[i].type \in {"text", "thinking", "tool_use", "tool_result"}
                      THEN len + content[i].length ELSE len)

estimateContentLength(content) == EstimateFrom(content, 1, 0)

MinOf(a, b) == IF Less(b, a) THEN b ELSE a
MaxOf(a, b) == IF Less(a, b) THEN b ELSE a

BranchShare == <<3, 10>>        \* 0.3
MinBarFraction == <<1, 200>>    \* 0.005

\* The fork position without the height of the fork's own bar (i < index).
forkYExclusive(mainBarHeights, messageIndex) ==
    Sum(SubSeq(mainBarHeights, 1, messageIndex))

\* for (let i = 0; i <= bp.messageIndex; i++) forkY += mainBarHeights[i]
forkY(mainBarHeights, messageIndex) ==
    Sum(SubSeq(mainBarHeights, 1, messageIndex + 1))

\* for (let pathIdx = 1; pathIdx < bp.paths.length; pathIdx++) { ... }
RECURSIVE LayoutPathLoop(_, _, _, _, _)
LayoutPathLoop(bp, forkFraction, total, pathIdx, acc) ==
    IF pathIdx >= Len(bp.paths) THEN acc
    ELSE
      LET path == bp.paths[pathIdx + 1]
          lengths == [i \in DOMAIN path |-> Num(estimateContentLength(path[i].content))]
          pathTotal == Sum(lengths)
          maxBranchHeight == Times(total, BranchShare)
          scale == IF Less(Num(0), pathTotal)
                   THEN Over(MinOf(maxBranchHeight, pathTotal), pathTotal)
                   ELSE Num(0)
          barFractions == [i \in DOMAIN lengths |->
                             MaxOf(MinBarFraction, Over(Times(lengths[i], scale), total))]
      IN LayoutPathLoop(bp, forkFraction, total, pathIdx + 1,
                        Append(acc, [forkFraction |-> forkFraction,
                                     barFractions |-> barFractions,
                                     barTypes |-> [i \in DOMAIN path |-> path[i].type],
                                     forkUuid |-> bp.forkMessageUuid,
                                     pathIndex |-> pathIdx]))

RECURSIVE LayoutLoop(_, _, _, _, _)
LayoutLoop(mainBarHeights, points, b, total, acc) ==
    IF b > Len(points) THEN acc
    ELSE LayoutLoop(mainBarHeights, points, b + 1, total,
                    LayoutPathLoop(points[b],
                                   Over(forkY(mainBarHeights, points[b].messageIndex), total),
                                   total, 1, acc))

computeBranchLayout(mainBarHeights, points) ==
    LET total == Sum(mainBarHeights)
    IN IF total = Num(0) THEN <<>>
       ELSE LayoutLoop(mainBarHeights, points, 1, total, <<>>)

SpineHeights == {0, 1, 2}

PathMessage(type, content) == [type |-> type, content |-> content]

\* The paths of a branch point: the active continuation, then the
\* alternates (none, one or two; getBranchPoints never returns none).
ActiveStub == <<PathMessage("assistant", <<Block("text", 1)>>)>>
EmptyReply == <<PathMessage("assistant", <<Block("text", 0)>>)>>
ShortReply == <<PathMessage("assistant", <<Block("thinking", 1), Block("text", 1)>>)>>
LongThread == <<PathMessage("user", <<Block("tool_result", 2)>>),
                PathMessage("assistant", <<>>)>>

BranchShapes ==
    {<<ActiveStub>>,
     <<ActiveStub, EmptyReply>>,
     <<ActiveStub, ShortReply>>,
     <<ActiveStub, LongThread>>,
     <<ActiveStub, ShortReply, EmptyReply>>,
     <<ActiveStub, LongThread, ShortReply>>}

\* The heights of the bars of the main spine, as the caller measured them.
AddSpineBar ==
    /\ mmPc = "input"
    /\ layoutPoints = <<>>
    /\ Len(barHeights) < MaxBars
    /\ \E h \in SpineHeights : barHeights' = Append(barHeights, Num(h))
    /\ UNCHANGED <<mmPc, contentLengths, totalHeight, minBarHeight, clickY, hitIndex,
                   layoutPoints, branches>>
    /\ UNCHANGED <<treeVars, codexVars, metaVars, viewVars, scrollVars, serverVars>>

\* Branch points come in active-path order, each at a message of the spine.
AddBranchPoint ==
    /\ mmPc = "input"
    /\ Len(layoutPoints) < MaxForks
    /\ LET from == IF layoutPoints = <<>> THEN 0
                   ELSE layoutPoints[Len(layoutPoints)].messageIndex + 1
       IN \E idx \in from..(Len(barHeights) - 1), paths \in BranchShapes :
            layoutPoints' = Append(layoutPoints,
                                   [messageIndex |-> idx,
                                    forkMessageUuid |-> idx + 1,
                                    paths |-> paths])
    /\ UNCHANGED <<mmPc, contentLengths, totalHeight, minBarHeight, barHeights,
                   clickY, hitIndex, branches>>
    /\ UNCHANGED <<treeVars, codexVars, metaVars, viewVars, scrollVars, serverVars>>

ComputeBranchLayout ==
    /\ mmPc = "input"
    /\ branches' = computeBranchLayout(barHeights, layoutPoints)
    /\ mmPc' = "layout"
    /\ UNCHANGED <<contentLengths, totalHeight, minBarHeight, barHeights,
                   clickY, hitIndex, layoutPoints>>
    /\ UNCHANGED <<treeVars, codexVars, metaVars, viewVars, scrollVars, serverVars>>

NextLayout ==
    \/ AddSpineBar
    \/ AddBranchPoint
    \/ ComputeBranchLayout

SpecLayout == Init /\ [][NextLayout]_vars

\* ------------------------------------ session view: switching of paths
MaxViewEntries == 6     \* records of the session shown in the view

\* A line of a live session: stamped with the time of writing, so entry n
\* carries timestamp n; its parent is any earlier record or none.
ViewLines(n) ==
    [type       : {IF n % 2 = 1 THEN "user" ELSE "assistant"},
     uuid       : {n},
     hasMessage : {TRUE},
     isMeta     : {FALSE},
     parentUuid : {NoUuid} \cup 1..(n - 1),
     timestamp  : {n},
     content    : {n}]

ParseViewLine ==
    /\ pc = "reading"
    /\ Len(entries) < MaxViewEntries
    /\ \E e \in ViewLines(Len(entries) + 1) : entries' = Append(entries, e)
    /\ UNCHANGED <<pc, thread, nodes, roots, activePath, branchPoints>>
    /\ UNCHANGED <<codexVars, metaVars, minimapVars, viewVars, scrollVars, serverVars>>

\* pathSelections[bp.forkMessageUuid] ?? 0
selectionOf(selections, bp) ==
    IF bp.forkMessageUuid \in DOMAIN selections
    THEN selections[bp.forkMessageUuid] ELSE 0

\* The loop of effectiveMessages cutting the spine before the fork message.
RECURSIVE EffectiveLoopExclusive(_, _, _, _)
EffectiveLoopExclusive(msgs, bps, selections, b) ==
    IF b > Len(bps) THEN msgs
    ELSE LET bp == bps[b]
             chosen == selectionOf(selections, bp)
             selected == IF chosen < Len(bp.paths) - 1 THEN chosen ELSE Len(bp.paths) - 1
         IN IF selected # 0
            THEN SubSeq(msgs, 1, bp.messageIndex) \o bp.paths[selected + 1]
            ELSE EffectiveLoopExclusive(msgs, bps, selections, b + 1)

computeEffectiveMessagesExclusive(msgs, bps, selections) ==
    EffectiveLoopExclusive(msgs, bps, selections, 1)

\* for (const bp of branchPoints) { ... if (selected !== 0) return [...] }
RECURSIVE EffectiveLoop(_, _, _, _)
EffectiveLoop(msgs, bps, selections, b) ==
    IF b > Len(bps) THEN msgs
    ELSE LET bp == bps[b]
             chosen == selectionOf(selections, bp)
             selected == IF chosen < Len(bp.paths) - 1 THEN chosen ELSE Len(bp.paths) - 1
         IN IF selected # 0
            THEN SubSeq(msgs, 1, bp.messageIndex + 1) \o bp.paths[selected + 1]
            ELSE EffectiveLoop(msgs, bps, selections, b + 1)

computeEffectiveMessages(msgs, bps, selections) ==
    EffectiveLoop(msgs, bps, selections, 1)

\* visibleBranchPoints: the branch points up to and including the first
\* one whose selection is not 0 (positions in branchPoints).
RECURSIVE VisibleLoop(_, _, _, _)
VisibleLoop(bps, selections, b, visible) ==
    IF b > Len(bps) THEN visible
    ELSE IF selectionOf(selections, bps[b]) # 0 THEN visible \cup {b}
         ELSE VisibleLoop(bps, selections, b + 1, visible \cup {b})

visibleBranchPoints(bps, selections) == VisibleLoop(bps, selections, 1, {})

BATCH_SIZE == 50        \* InfiniteMessageList: messages rendered per batch
MIN_BAR_HEIGHT == 2     \* ConversationMinimap: minimum height of a bar
MaxSessionsViewed == 2  \* sessions opened one after the other in the page

\* Math.min(BATCH_SIZE, effectiveMessages.length)
firstBatch(msgs) == IF BATCH_SIZE < Len(msgs) THEN BATCH_SIZE ELSE Len(msgs)

\* renderedCount after a render in which effectiveMessages went from before
\* to after: reset to the first batch when the length changed.
resetRenderedCount(count, before, after) ==
    IF Len(after) # Len(before) THEN firstBatch(after) ELSE count

\* The content of message n of the view: one text block of n characters.
contentBlocks(msg) == <<Block("text", msg.content)>>

\* ConversationMinimap: barHeights.
minimapBarHeights(msgs) ==
    computeBarHeights([i \in DOMAIN msgs |-> estimateContentLength(contentBlocks(msgs[i]))],
                      1000, MIN_BAR_HEIGHT)

\* ConversationMinimap: branches.
minimapBranches(msgs, bps) ==
    computeBranchLayout(
        minimapBarHeights(msgs),
        [b \in DOMAIN bps |->
            [messageIndex |-> bps[b].messageIndex,
             forkMessageUuid |-> bps[b].forkMessageUuid,
             paths |-> [p \in DOMAIN bps[b].paths |->
                          [i \in DOMAIN bps[b].paths[p] |->
                              PathMessage(bps[b].paths[p][i].type,
                                          contentBlocks(bps[b].paths[p][i]))]]]])

\* ConversationMinimap: if (messages.length < 5) return null
minimapShown(msgs) == ~(Len(msgs) < 5)

\* setPathSelections((prev) => ({ ...prev, [forkUuid]: pathIndex }))
withSelection(selections, forkUuid, pathIndex) ==
    [u \in DOMAIN selections \cup {forkUuid} |->
        IF u = forkUuid THEN pathIndex ELSE selections[u]]

\* Math.min(scrollToIndex + BATCH_SIZE, effectiveMessages.length)
batchUpTo(index, msgs) ==
    IF index + BATCH_SIZE < Len(msgs) THEN index + BATCH_SIZE ELSE Len(msgs)

\* The "Scroll to index" effect has work to do: a requested message that is
\* rendered, or one for which setRenderedCount changes the state (a state
\* update to the same value renders nothing and re-runs no effect).
ScrollPending ==
    /\ scrollToIndex # NoIndex
    /\ scrollToIndex >= renderedCount =>
           batchUpTo(scrollToIndex, effectiveMessages) # renderedCount

\* The passive effects of the last render have run (React runs them before
\* it handles the next click).
EffectsFlushed == effectSession = viewedSession /\ ~ScrollPending

\* SessionDetail renders the loader data: on the first mount with
\* useState({}), after a navigation with the state the page holds.
Mount ==
    /\ pc = "branches"
    /\ LET after == computeEffectiveMessages(activePath, branchPoints, pathSelections)
       IN /\ effectiveMessages' = after
          /\ renderedCount' = IF effectSession = 0 THEN firstBatch(after)
                              ELSE resetRenderedCount(renderedCount, effectiveMessages, after)
    /\ pc' = "view"
    /\ UNCHANGED <<entries, thread, nodes, roots, activePath, branchPoints>>
    /\ UNCHANGED <<pathSelections, scrollToIndex, viewedSession, effectSession>>
    /\ UNCHANGED <<codexVars, metaVars, minimapVars, serverVars>>

\* The effect of a changed session, keeping the selections.
ResetSelectionsKeeping ==
    /\ pc = "view"
    /\ effectSession # viewedSession
    /\ effectSession' = viewedSession
    /\ UNCHANGED <<pathSelections, effectiveMessages, renderedCount>>
    /\ UNCHANGED <<scrollToIndex, viewedSession>>
    /\ UNCHANGED <<treeVars, codexVars, metaVars, minimapVars, serverVars>>

\* useEffect(() => { setPathSelections({}) }, [data.sessionId]): runs after
\* the first render and after the render of another session's data.
ResetSelections ==
    /\ pc = "view"
    /\ effectSession # viewedSession
    /\ pathSelections' = <<>>
    /\ LET after == computeEffectiveMessages(activePath, branchPoints, <<>>)
       IN /\ effectiveMessages' = after
          /\ renderedCount' = resetRenderedCount(renderedCount, effectiveMessages, after)
    /\ effectSession' = viewedSession
    /\ UNCHANGED <<scrollToIndex, viewedSession>>
    /\ UNCHANGED <<treeVars, codexVars, metaVars, minimapVars, serverVars>>

\* A click on the previous / next button of a visible BranchSwitcher:
\* onSwitch(activePathIndex -/+ 1) -> handlePathSwitch -> re-render.
PathSwitch ==
    /\ pc = "view"
    /\ EffectsFlushed
    /\ \E b \in visibleBranchPoints(branchPoints, pathSelections), step \in {-1, 1} :
         LET bp == branchPoints[b]
             current == selectionOf(pathSelections, bp)
             pathIndex == current + step
             next == withSelection(pathSelections, bp.forkMessageUuid, pathIndex)
             after == computeEffectiveMessages(activePath, branchPoints, next)
         IN /\ Len(bp.paths) > 1
            /\ step = -1 => current # 0
            /\ step = 1 => current # Len(bp.paths) - 1
            /\ pathSelections' = next
            /\ effectiveMessages' = after
            /\ renderedCount' = resetRenderedCount(renderedCount, effectiveMessages, after)
    /\ UNCHANGED <<scrollToIndex, viewedSession, effectSession>>
    /\ UNCHANGED <<treeVars, codexVars, metaVars, minimapVars, serverVars>>

NextView ==
    \/ ParseViewLine
    \/ BuildConversationThread
    \/ BuildMessageTree
    \/ ResolveActivePath
    \/ GetBranchPoints
    \/ Mount
    \/ ResetSelections
    \/ PathSwitch

SpecView == Init /\ [][NextView]_vars

\* -------------------------- session view: minimap clicks and navigation
\* A click on the spine of the minimap, on the upper edge of a bar:
\* onClickPosition(hitTestMessageIndex(scaledY, barHeights)).
MinimapClick ==
    /\ pc = "view"
    /\ EffectsFlushed
    /\ minimapShown(activePath)
    /\ LET heights == minimapBarHeights(activePath)
       IN \E i \in DOMAIN heights :
            scrollToIndex' = hitTestMessageIndex(Sum(SubSeq(heights, 1, i - 1)), heights)
    /\ UNCHANGED <<pathSelections, effectiveMessages, renderedCount, viewedSession, effectSession>>
    /\ UNCHANGED <<treeVars, codexVars, metaVars, minimapVars, serverVars>>

\* A click on a branch of the minimap: handleBranchClick(branch.forkUuid,
\* branch.pathIndex).
BranchClick ==
    /\ pc = "view"
    /\ EffectsFlushed
    /\ minimapShown(activePath)
    /\ LET shown == minimapBranches(activePath, branchPoints)
       IN \E k \in DOMAIN shown :
            LET forkUuid == shown[k].forkUuid
                next == withSelection(pathSelections, forkUuid, shown[k].pathIndex)
                after == computeEffectiveMessages(activePath, branchPoints, next)
                found == {b \in DOMAIN branchPoints :
                             branchPoints[b].forkMessageUuid = forkUuid}
            IN /\ pathSelections' = next
               /\ effectiveMessages' = after
               /\ renderedCount' = resetRenderedCount(renderedCount, effectiveMessages, after)
               /\ scrollToIndex' =
                    IF found # {}
                    THEN branchPoints[CHOOSE b \in found : \A c \in found : b <= c].messageIndex
                    ELSE scrollToIndex
    /\ UNCHANGED <<viewedSession, effectSession>>
    /\ UNCHANGED <<treeVars, codexVars, metaVars, minimapVars, serverVars>>

\* The "Scroll to index" effect of InfiniteMessageList, run after a render
\* in which one of its dependencies changed.
ScrollEffect ==
    /\ pc = "view"
    /\ ScrollPending
    /\ IF scrollToIndex >= renderedCount
       THEN /\ renderedCount' = batchUpTo(scrollToIndex, effectiveMessages)
            /\ UNCHANGED scrollToIndex
       ELSE /\ scrollToIndex' = NoIndex
            /\ UNCHANGED renderedCount
    /\ UNCHANGED <<pathSelections, effectiveMessages, viewedSession, effectSession>>
    /\ UNCHANGED <<treeVars, codexVars, metaVars, minimapVars, serverVars>>

\* A line of a session opened from the index: one conversation, whose
\* records answer the first record or one of the last two records.
SessionLines(n) ==
    {e \in ViewLines(n) :
        IF n = 1 THEN e.parentUuid = NoUuid
        ELSE e.parentUuid \in {1, n - 2, n - 1} \cap 1..(n - 1)}

\* The session files of n lines.
RECURSIVE SessionLogs(_)
SessionLogs(n) ==
    IF n = 0 THEN {<<>>}
    ELSE {Append(log, e) : log \in SessionLogs(n - 1), e \in SessionLines(n)}

\* loader: parseSessionFile, buildMessageTree, resolveActivePath,
\* getBranchPoints (which sorts the children of the forks it visits).
loaderData(log) ==
    LET f == buildMessageTree(log)
        path == resolveActivePath(f.nodes, f.roots)
    IN [nodes        |-> heapAfterGetBranchPoints(f.nodes, f.roots, path),
        roots        |-> f.roots,
        messages     |-> path,
        branchPoints |-> getBranchPoints(f.nodes, f.roots, path)]

\* What the loader returns for each session file the user can open.
loaded == [log \in UNION {SessionLogs(n) : n \in 0..MaxViewEntries} |-> loaderData(log)]

\* The loader has run for the session asked for and SessionDetail renders
\* its data: on the first mount with useState({}) and useState(null), after
\* a navigation with the state the mounted component holds.
OpenSession ==
    /\ pc = "reading"
    /\ \E log \in DOMAIN loaded :
         LET data == loaded[log]
             after == computeEffectiveMessages(data.messages, data.branchPoints, pathSelections)
         IN /\ entries' = log
            /\ nodes' = data.nodes
            /\ roots' = data.roots
            /\ activePath' = data.messages
            /\ branchPoints' = data.branchPoints
            /\ effectiveMessages' = after
            /\ renderedCount' = IF effectSession = 0 THEN firstBatch(after)
                                ELSE resetRenderedCount(renderedCount, effectiveMessages, after)
    /\ pc' = "view"
    /\ UNCHANGED <<thread, pathSelections, scrollToIndex, viewedSession, effectSession>>
    /\ UNCHANGED <<codexVars, metaVars, minimapVars, serverVars>>

\* The user follows a link to another session: the loader is called for
\* it, the component stays mounted and keeps its state.
Navigate ==
    /\ pc = "view"
    /\ EffectsFlushed
    /\ viewedSession < MaxSessionsViewed
    /\ viewedSession' = viewedSession + 1
    /\ pc' = "reading"
    /\ entries' = <<>>
    /\ nodes' = EmptyHeap
    /\ roots' = <<>>
    /\ activePath' = <<>>
    /\ branchPoints' = <<>>
    /\ UNCHANGED <<thread, pathSelections, effectiveMessages, scrollToIndex, renderedCount, effectSession>>
    /\ UNCHANGED <<codexVars, metaVars, minimapVars, serverVars>>

NextSession ==
    \/ OpenSession
    \/ ResetSelections
    \/ PathSwitch
    \/ MinimapClick
    \/ BranchClick
    \/ ScrollEffect
    \/ Navigate

SpecSession == Init /\ [][NextSession]_vars

\* The effects of a render are run by React without waiting for the user;
\* clicks and navigations happen only if the user makes them.
SpecSessionFair ==
    SpecSession /\ WF_vars(ResetSelections) /\ WF_vars(ScrollEffect)

\* ----------------------------------- session index: imports and hiding
\* The assistant writes a session file: a new file, or more lines appended
\* to an existing one (its mtime increases).
WriteSessionFile ==
    /\ \E s \in SessionIds :
         /\ diskMtime[s] < MaxMtime
         /\ diskMtime' = [diskMtime EXCEPT ![s] = @ + 1]
    /\ lastOp' = Op("write", <<>>, FALSE, {})
    /\ UNCHANGED <<projects, sessions>>
    /\ UNCHANGED <<treeVars, codexVars, metaVars, minimapVars, viewVars, scrollVars, initVars>>

\* importFromDataDir: the first import and every rescan.
ImportFromDataDir ==
    /\ LET db == importProjects(Db, ProjectDirs, diskMtime)
       IN /\ projects' = db.projects
          /\ sessions' = db.sessions
          /\ lastOp' = Op("import", <<>>, FALSE,
                          {s \in DOMAIN sessions : db.sessions[s] # sessions[s]})
    /\ UNCHANGED diskMtime
    /\ UNCHANGED <<treeVars, codexVars, metaVars, minimapVars, viewVars, scrollVars, initVars>>

\* setProjectHidden(db, projectName, hidden), from the hide / show button.
SetProjectHidden ==
    /\ \E projectName \in ProjectNames, hidden \in BOOLEAN :
         LET db == setProjectHidden(Db, projectName, hidden)
         IN /\ projects' = db.projects
            /\ sessions' = db.sessions
            /\ lastOp' = Op("setProjectHidden", projectName, hidden, {})
    /\ UNCHANGED diskMtime
    /\ UNCHANGED <<treeVars, codexVars, metaVars, minimapVars, viewVars, scrollVars, initVars>>

NextDb ==
    \/ WriteSessionFile
    \/ ImportFromDataDir
    \/ SetProjectHidden

SpecDb == Init /\ [][NextDb]_vars

\* ------------------------------- session index: initialization on demand
\* if (!_initPromise) _initPromise = initDb(): is initDb to be started?
startsInitDbAlways(promise) == TRUE

startsInitDb(promise) == promise = "null"

\* The promise a caller of ensureInitialized awaits.
awaitedPromise(promise) == IF startsInitDb(promise) THEN "initDb" ELSE promise

\* A request handler calls ensureInitialized: it starts initDb if no
\* promise is stored, and awaits the stored promise.
EnsureInitialized ==
    /\ \E c \in DOMAIN callers :
         /\ callers[c] = "idle"
         /\ callers' = [callers EXCEPT ![c] =
                IF awaitedPromise(initPromise) = "initDb" THEN "awaitInitDb" ELSE "awaitResolved"]
    /\ initPromise' = awaitedPromise(initPromise)
    /\ IF startsInitDb(initPromise)
       THEN initRun' = "running" /\ initStarts' = initStarts + 1
       ELSE UNCHANGED <<initRun, initStarts>>
    /\ UNCHANGED rescans
    /\ UNCHANGED <<treeVars, codexVars, metaVars, minimapVars, viewVars, scrollVars, dbVars>>

\* initDb: importDataDir has imported the data directory, the promise of
\* initDb is fulfilled.
InitDbCompletes ==
    /\ initRun = "running"
    /\ initRun' = "done"
    /\ LET db == importProjects(Db, ProjectDirs, diskMtime)
       IN /\ projects' = db.projects
          /\ sessions' = db.sessions
          /\ lastOp' = Op("import", <<>>, FALSE,
                          {s \in DOMAIN sessions : db.sessions[s] # sessions[s]})
    /\ UNCHANGED <<diskMtime, initPromise, initStarts, rescans, callers>>
    /\ UNCHANGED <<treeVars, codexVars, metaVars, minimapVars, viewVars, scrollVars>>

\* initDb throws (no DATA_DIR, or the import fails): its promise is rejected.
InitDbFails ==
    /\ initRun = "running"
    /\ initRun' = "failed"
    /\ UNCHANGED <<initPromise, initStarts, rescans, callers>>
    /\ UNCHANGED <<treeVars, codexVars, metaVars, minimapVars, viewVars, scrollVars, dbVars>>

\* await _initPromise; return getDb(): the caller goes on when the promise
\* it awaits is settled. "gotDbEarly" is a handle received while the import
\* of initDb has not completed.
Resume ==
    /\ \E c \in DOMAIN callers :
         \/ /\ callers[c] = "awaitInitDb"
            /\ initRun \in {"done", "failed"}
            /\ callers' = [callers EXCEPT ![c] =
                              IF initRun = "done" THEN "gotDb" ELSE "threw"]
         \/ /\ callers[c] = "awaitResolved"
            /\ callers' = [callers EXCEPT ![c] =
                              IF initRun = "done" THEN "gotDb" ELSE "gotDbEarly"]
    /\ UNCHANGED <<initPromise, initRun, initStarts, rescans>>
    /\ UNCHANGED <<treeVars, codexVars, metaVars, minimapVars, viewVars, scrollVars, dbVars>>

\* The rescan action calls rescanDb, which starts an import of its own.
RescanStarts ==
    /\ \E c \in DOMAIN callers :
         /\ callers[c] = "idle"
         /\ callers' = [callers EXCEPT ![c] = "rescanning"]
    /\ UNCHANGED <<initPromise, initRun, initStarts, rescans>>
    /\ UNCHANGED <<treeVars, codexVars, metaVars, minimapVars, viewVars, scrollVars, dbVars>>

\* rescanDb: its import is over, _initPromise = Promise.resolve().
RescanCompletes ==
    /\ \E c \in DOMAIN callers :
         /\ callers[c] = "rescanning"
         /\ callers' = [callers EXCEPT ![c] = "rescanned"]
    /\ initPromise' = "resolved"
    /\ rescans' = rescans + 1
    /\ LET db == importProjects(Db, ProjectDirs, diskMtime)
       IN /\ projects' = db.projects
          /\ sessions' = db.sessions
          /\ lastOp' = Op("import", <<>>, FALSE,
                          {s \in DOMAIN sessions : db.sessions[s] # sessions[s]})
    /\ UNCHANGED <<diskMtime, initRun, initStarts>>
    /\ UNCHANGED <<treeVars, codexVars, metaVars, minimapVars, viewVars, scrollVars>>

\* rescanDb throws: the action answers 500 and _initPromise is not touched.
RescanFails ==
    /\ \E c \in DOMAIN callers :
         /\ callers[c] = "rescanning"
         /\ callers' = [callers EXCEPT ![c] = "rescanFailed"]
    /\ UNCHANGED <<initPromise, initRun, initStarts, rescans>>
    /\ UNCHANGED <<treeVars, codexVars, metaVars, minimapVars, viewVars, scrollVars, dbVars>>

NextInit ==
    \/ EnsureInitialized
    \/ InitDbCompletes
    \/ InitDbFails
    \/ Resume
    \/ RescanStarts
    \/ RescanCompletes
    \/ RescanFails

SpecInit == Init /\ [][NextInit]_vars

\* =================================================================== claims
UuidsOf(ms) == [i \in DOMAIN ms |-> ms[i].uuid]

Built == pc \in {"tree", "path", "branches"}
Resolved == pc \in {"path", "branches"}
Branched == pc = "branches"

\* The nodes of the subtree rooted at n (n and everything below it).
RECURSIVE Below(_, _)
Below(h, S) ==
    LET T == S \cup UNION {Range(h.children[k]) : k \in S}
    IN IF T = S THEN S ELSE Below(h, T)

Max(S) == CHOOSE x \in S : \A y \in S : y <= x

\* Deepest-descendant timestamp, stated over the set of descendants.
Deepest(h, n) == Max({h.entry[k].timestamp : k \in Below(h, {n})})

NoFork == \A k \in Range(nodes.keys) : Len(nodes.children[k]) <= 1

\* C1: for a forest in which no node has more than one child,
\* resolveActivePath(buildMessageTree(entries)) is the uuid sequence of
\* buildConversationThread(entries) (the messages by ascending timestamp).
C1_ActivePathIsThread ==
    (Resolved /\ NoFork) => UuidsOf(activePath) = UuidsOf(thread)

\* C2: paths[0] of every BranchPoint is the continuation of the active path
\* after the fork, activePath[messageIndex+1 ..], in the same order.
C2_FirstPathIsContinuation ==
    Branched =>
      \A b \in DOMAIN branchPoints :
        branchPoints[b].paths[1] =
          SubSeq(activePath, branchPoints[b].messageIndex + 2, Len(activePath))

\* Siblings a, b of fork node k tie on the deepest-descendant timestamp.
TiedFork(k) ==
    \E i, j \in DOMAIN nodes.children[k] :
        /\ i < j
        /\ Deepest(nodes, nodes.children[k][i]) = Deepest(nodes, nodes.children[k][j])

C2_Witness ==
    /\ Branched
    /\ \E b \in DOMAIN branchPoints :
         /\ TiedFork(branchPoints[b].forkMessageUuid)
         /\ Len(branchPoints[b].paths[1]) >= 2

\* n is the element of arr with the greatest deepest-descendant timestamp,
\* the earliest such element of arr.
IsEarliestLatest(h, arr, n) ==
    \E i \in DOMAIN arr :
        /\ arr[i] = n
        /\ \A j \in DOMAIN arr : Deepest(h, arr[j]) <= Deepest(h, n)
        /\ \A j \in 1..(i - 1) : Deepest(h, arr[j]) < Deepest(h, n)

\* C3: the active path starts at the root with the greatest
\* deepest-descendant timestamp, each next message is the child of the
\* previous one with the greatest deepest-descendant timestamp, the last
\* one is a leaf, and on equal timestamps the earliest root or sibling wins.
C3_ActivePathDescent ==
    Resolved =>
      /\ (roots = <<>>) <=> (activePath = <<>>)
      /\ roots # <<>> =>
           /\ IsEarliestLatest(nodes, roots, activePath[1].uuid)
           /\ \A i \in 1..(Len(activePath) - 1) :
                IsEarliestLatest(nodes, nodes.children[activePath[i].uuid],
                                 activePath[i + 1].uuid)
           /\ nodes.children[activePath[Len(activePath)].uuid] = <<>>
           /\ \A i \in DOMAIN activePath :
                activePath[i] = nodes.entry[activePath[i].uuid]

C3_Witness ==
    /\ Resolved
    /\ Len(activePath) >= 3
    /\ TiedFork(activePath[1].uuid)
    /\ \E k \in Range(nodes.children[activePath[1].uuid]) :
         nodes.entry[k].timestamp > activePath[2].timestamp

\* C4: within a BranchPoint the paths are newest-first by the
\* deepest-descendant timestamp of the child subtree each starts at.
C4_PathsNewestFirst ==
    Branched =>
      \A b \in DOMAIN branchPoints :
        \A i, j \in DOMAIN branchPoints[b].paths :
          i < j =>
            Deepest(nodes, branchPoints[b].paths[i][1].uuid)
              >= Deepest(nodes, branchPoints[b].paths[j][1].uuid)

C4_Witness ==
    /\ Branched
    /\ \E b \in DOMAIN branchPoints :
         LET ps == branchPoints[b].paths
             cs == nodes.children[branchPoints[b].forkMessageUuid]
         IN /\ Len(ps) >= 2
            /\ Deepest(nodes, ps[1][1].uuid) > Deepest(nodes, ps[2][1].uuid)
            /\ cs[1] # ps[1][1].uuid

\* Positions (0-based) of the active path whose node has several children.
ForkPositions ==
    {i \in 0..(Len(activePath) - 1) : Len(nodes.children[activePath[i + 1].uuid]) > 1}

IsConversational(e) ==
    /\ e.type = "user" \/ e.type = "assistant"
    /\ e.uuid # NoUuid
    /\ e.hasMessage
    /\ ~e.isMeta

QualifyingUuids == {entries[i].uuid : i \in {j \in DOMAIN entries : IsConversational(entries[j])}}

\* Number of places at which node u hangs in some children list.
RECURSIVE SumOver(_, _)
SumOver(S, u) ==
    IF S = {} THEN 0
    ELSE LET q == CHOOSE x \in S : TRUE
         IN Count(nodes.children[q], u) + SumOver(S \ {q}, u)

Placements(u) == SumOver(Range(nodes.keys), u)

InSomeChildren(k) == \E q \in Range(nodes.keys) : Count(nodes.children[q], k) > 0

\* C6: a node is a forest root iff its parentUuid is null or names no
\* qualifying message of the batch; otherwise it is a child of exactly the
\* node whose uuid is its parentUuid.
C6_RootIffNoParentInBatch ==
    Built =>
      \A k \in Range(nodes.keys) :
        LET p == nodes.entry[k].parentUuid
            orphan == p = NoUuid \/ p \notin QualifyingUuids
        IN /\ orphan => Count(roots, k) = 1 /\ ~InSomeChildren(k)
           /\ ~orphan =>
                /\ Count(roots, k) = 0
                /\ Count(nodes.children[p], k) = 1
                /\ \A q \in Range(nodes.keys) \ {p} : Count(nodes.children[q], k) = 0

C6_Witness ==
    /\ Built
    /\ \E k, c \in Range(nodes.keys) :
         /\ nodes.entry[k].parentUuid # NoUuid
         /\ nodes.entry[k].parentUuid \notin QualifyingUuids
         /\ Count(roots, k) = 1
         /\ nodes.entry[c].parentUuid = k
         /\ Count(nodes.children[k], c) = 1

\* C7: the nodes of the forest are exactly the user/assistant records that
\* carry a uuid and a message and are not isMeta; a record of another kind
\* is nowhere in the forest, and a qualifying record whose parentUuid names
\* only excluded records is a root.
ExcludedUuids ==
    {entries[i].uuid : i \in {j \in DOMAIN entries : ~IsConversational(entries[j])}}
        \ {NoUuid}

C7_OnlyConversationalRecords ==
    Built =>
      /\ Range(nodes.keys) = QualifyingUuids
      /\ Range(roots) \subseteq QualifyingUuids
      /\ \A k \in Range(nodes.keys) :
           /\ Range(nodes.children[k]) \subseteq QualifyingUuids
           /\ \E i \in DOMAIN entries :
                /\ IsConversational(entries[i])
                /\ nodes.entry[k] = entryToParsedMessage(entries[i])
           /\ nodes.entry[k].parentUuid \in ExcludedUuids \ QualifyingUuids
                => Count(roots, k) = 1

C7_Witness ==
    /\ Built
    /\ \E i \in DOMAIN entries :
         /\ entries[i].type = "progress"
         /\ entries[i].uuid \notin QualifyingUuids
         /\ \E k \in Range(nodes.keys) :
              /\ nodes.entry[k].parentUuid = entries[i].uuid
              /\ Count(roots, k) = 1

\* Index of the last qualifying record of the batch with uuid u.
LastRecordOf(u) ==
    Max({i \in DOMAIN entries : IsConversational(entries[i]) /\ entries[i].uuid = u})

RECURSIVE Flatten(_)
Flatten(ss) == IF ss = <<>> THEN <<>> ELSE Head(ss) \o Flatten(Tail(ss))

NonDecreasingInput ==
    \A i \in 2..Len(cxEntries) : cxEntries[i].timestamp >= cxEntries[i - 1].timestamp

\* C9: for input events with non-decreasing timestamps, the messages
\* returned by buildCodexMessages have non-decreasing timestamps.
C9_Chronological ==
    (cxPc = "done" /\ NonDecreasingInput) =>
      \A i \in 2..Len(messages) : messages[i].timestamp >= messages[i - 1].timestamp

\* The content blocks an input event stands for.
BlocksOf(e) ==
    IF e.type = "response_item" /\ e.ptype = "reasoning"
    THEN IF \E i \in DOMAIN e.summary : e.summary[i] # EmptyText
         THEN <<[type |-> "thinking", thinking |-> SelectSeq(e.summary, Truthy)]>>
         ELSE <<>>
    ELSE IF e.type = "response_item" /\ e.ptype = "function_call"
    THEN <<[type |-> "tool_use", id |-> e.call_id, name |-> e.name,
            input |-> IF e.argsValid THEN [json |-> e.text] ELSE [raw |-> e.text]]>>
    ELSE IF e.type = "response_item" /\ e.ptype = "custom_tool_call"
    THEN <<[type |-> "tool_use", id |-> e.call_id, name |-> e.name,
            input |-> IF e.name = "apply_patch"
                      THEN [patch |-> e.text] ELSE [input |-> e.text]]>>
    ELSE IF e.type = "event_msg" /\ e.ptype = "agent_message"
    THEN <<[type |-> "text", text |-> e.text]>>
    ELSE <<>>

\* An event after which no assistant block is pending.
IsBoundary(e) ==
    \/ e.type = "event_msg" /\ e.ptype \in {"user_message", "agent_message"}
    \/ e.type = "response_item"
         /\ e.ptype \in {"function_call_output", "custom_tool_call_output"}

\* The blocks of the events between the last boundary before event k and k.
PendingBefore(k) ==
    LET b == Max({0} \cup {i \in 1..(k - 1) : IsBoundary(cxEntries[i])})
    IN Flatten([i \in 1..(k - 1 - b) |-> BlocksOf(cxEntries[b + i])])

AssistantMessages == SelectSeq(messages, LAMBDA m : m.type = "assistant")

\* C10: the blocks of the assistant messages are the blocks of the input
\* events, each once and in input order; a user_message closes the pending
\* blocks into one assistant message right before the user message, and an
\* agent_message puts the pending blocks and its text into one message.
C10_AssistantBlocks ==
    LET n == Len(cxEntries)
        k == Len(messages)
        emitted == Flatten([i \in DOMAIN AssistantMessages |-> AssistantMessages[i].content])
        input == Flatten([i \in DOMAIN cxEntries |-> BlocksOf(cxEntries[i])])
    IN /\ emitted \o currentAssistantBlocks = input
       /\ cxPc = "done" => emitted = input
       /\ \A i \in DOMAIN AssistantMessages : AssistantMessages[i].content # <<>>
       /\ (cxPc = "loop" /\ n > 0 /\ cxEntries[n].type = "event_msg"
             /\ cxEntries[n].ptype = "user_message") =>
            /\ currentAssistantBlocks = <<>>
            /\ k >= 1 /\ messages[k].type = "user"
            /\ messages[k].content = <<[type |-> "text", text |-> cxEntries[n].text]>>
            /\ PendingBefore(n) # <<>> =>
                 /\ k >= 2 /\ messages[k - 1].type = "assistant"
                 /\ messages[k - 1].content = PendingBefore(n)
       /\ (cxPc = "loop" /\ n > 0 /\ cxEntries[n].type = "event_msg"
             /\ cxEntries[n].ptype = "agent_message") =>
            /\ currentAssistantBlocks = <<>>
            /\ k >= 1 /\ messages[k].type = "assistant"
            /\ messages[k].content =
                 PendingBefore(n) \o <<[type |-> "text", text |-> cxEntries[n].text]>>

C10_Witness ==
    /\ cxPc = "loop"
    /\ Len(cxEntries) = 3
    /\ cxEntries[3].ptype = "agent_message"
    /\ Len(messages) = 1
    /\ Len(messages[1].content) = 3
    /\ messages[1].content[1].type = "thinking"
    /\ messages[1].content[2].type = "tool_use"

IsOutput(e) ==
    e.type = "response_item"
      /\ e.ptype \in {"function_call_output", "custom_tool_call_output"}

IsToolCall(e) ==
    e.type = "response_item" /\ e.ptype \in {"function_call", "custom_tool_call"}

ToolResultPositions == {b \in DOMAIN messages : messages[b].isToolResult}

\* The message of the output event j: entry j is the only one stamped j.
IsResultOf(b, j) ==
    messages[b].isToolResult /\ messages[b].timestamp = cxEntries[j].timestamp

HasBlock(m, blk) == \E x \in DOMAIN m.content : m.content[x] = blk

\* C11: every function_call_output / custom_tool_call_output event has
\* exactly one user message, whose content is a single tool_result block
\* tagged with the event's call id (isToolResult, toolResultId = that id);
\* the assistant blocks pending at the event form the assistant message
\* right before it, so the tool_use block of an earlier call with the same
\* call id is in an earlier message than the tool_result.
C11_ToolResultAfterToolUse ==
    /\ Cardinality(ToolResultPositions)
         = Cardinality({j \in DOMAIN cxEntries : IsOutput(cxEntries[j])})
    /\ \A j \in DOMAIN cxEntries :
         IsOutput(cxEntries[j]) =>
           \E b \in DOMAIN messages :
             /\ IsResultOf(b, j)
             /\ \A c \in DOMAIN messages : IsResultOf(c, j) => c = b
             /\ messages[b].type = "user"
             /\ messages[b].content =
                  <<[type |-> "tool_result",
                     tool_use_id |-> cxEntries[j].call_id,
                     content |-> cxEntries[j].text]>>
             /\ messages[b].toolResultId = cxEntries[j].call_id
             /\ PendingBefore(j) # <<>> =>
                  /\ b >= 2
                  /\ messages[b - 1].type = "assistant"
                  /\ messages[b - 1].content = PendingBefore(j)
             /\ \A i \in 1..(j - 1) :
                  (IsToolCall(cxEntries[i])
                     /\ cxEntries[i].call_id = cxEntries[j].call_id) =>
                    \E a \in 1..(b - 1) :
                      HasBlock(messages[a], BlocksOf(cxEntries[i])[1])

C11_Witness ==
    /\ Len(cxEntries) = 3
    /\ cxEntries[1].ptype = "reasoning" /\ cxEntries[1].summary # <<>>
    /\ cxEntries[2].ptype = "custom_tool_call"
    /\ cxEntries[3].ptype = "function_call_output"
    /\ cxEntries[3].call_id = cxEntries[2].call_id
    /\ Len(messages) = 2
    /\ Len(messages[1].content) = 2
    /\ messages[1].content[2].type = "tool_use"
    /\ messages[2].isToolResult
    /\ messages[2].toolResultId = messages[1].content[2].id

\* C12: the k-th returned message (k from 0) has uuid "codex-msg-k", so the
\* synthetic ids are distinct and increase in output order; every message
\* has parentUuid null and isSidechain false.
C12_SyntheticIds ==
    /\ \A k \in DOMAIN messages :
         /\ messages[k].uuid = <<"codex-msg-", k - 1>>
         /\ messages[k].parentUuid = NoUuid
         /\ messages[k].isSidechain = FALSE
    /\ \A i, j \in DOMAIN messages :
         i < j => /\ messages[i].uuid # messages[j].uuid
                  /\ messages[i].uuid[2] < messages[j].uuid[2]
    /\ msgIndex = Len(messages)

C12_Witness ==
    /\ cxPc = "done"
    /\ Len(messages) = 3
    /\ messages[1].type = "user"
    /\ messages[2].type = "assistant"
    /\ messages[3].type = "user" /\ messages[3].isToolResult
    /\ messages[3].uuid = <<"codex-msg-", 2>>

Min(S) == CHOOSE x \in S : \A y \in S : x <= y

\* The value of the first entry of the given kind that provides a
\* non-empty value, "" when there is none.
FirstProvided(IsKind(_), Value(_)) ==
    LET S == {i \in DOMAIN mdEntries : IsKind(mdEntries[i]) /\ Value(mdEntries[i]) # <<>>}
    IN IF S = {} THEN <<>> ELSE Value(mdEntries[Min(S)])

IsSessionMeta(e) == e.type = "session_meta"
IsTurnContext(e) == e.type = "turn_context"
IsUserMessage(e) == e.type = "event_msg" /\ e.ptype = "user_message"

Stamped == {i \in DOMAIN mdEntries : mdEntries[i].timestamp # EmptyTs}

\* C13 (timestamps, model, firstPrompt): created and modified are the first
\* and the last timestamp present, model is that of the first turn_context
\* providing one, firstPrompt the first user message cut to 200 characters.
C13_FirstSeenFields ==
    /\ meta.created = IF Stamped = {} THEN EmptyTs ELSE mdEntries[Min(Stamped)].timestamp
    /\ meta.modified = IF Stamped = {} THEN EmptyTs ELSE mdEntries[Max(Stamped)].timestamp
    /\ meta.model = FirstProvided(IsTurnContext, LAMBDA e : e.model)
    /\ LET p == FirstProvided(IsUserMessage, LAMBDA e : e.message)
       IN /\ Len(meta.firstPrompt) <= 200
          /\ meta.firstPrompt = SubSeq(p, 1, Len(meta.firstPrompt))
          /\ Len(meta.firstPrompt) = IF Len(p) > 200 THEN 200 ELSE Len(p)

\* C13: extractCodexMetadata takes created/modified from the first/last
\* timestamp, and every payload field from the first record that provides
\* it: session id, cwd, originator and git branch from the first
\* session_meta, model from the first turn_context, firstPrompt from the
\* first user_message; later records of the same kind change nothing.
C13_MetadataFirstWins ==
    /\ C13_FirstSeenFields
    /\ meta.sessionId = FirstProvided(IsSessionMeta, LAMBDA e : e.id)
    /\ meta.cwd = FirstProvided(IsSessionMeta, LAMBDA e : e.cwd)
    /\ meta.originator = FirstProvided(IsSessionMeta, LAMBDA e : e.originator)
    /\ meta.gitBranch = FirstProvided(IsSessionMeta, LAMBDA e : e.branch)

Conversational == {i \in DOMAIN entries : IsConversational(entries[i])}

\* Position of record i among the conversational records ordered by
\* timestamp, records of equal timestamp in input order.
ThreadRank(i) ==
    1 + Cardinality({j \in Conversational :
                       \/ entries[j].timestamp < entries[i].timestamp
                       \/ entries[j].timestamp = entries[i].timestamp /\ j < i})

\* C14: buildConversationThread returns one message per record of kind
\* user or assistant with a uuid and a message that is not isMeta, and
\* nothing else, by ascending timestamp, equal timestamps in input order.
C14_ThreadIsStableSortOfQualifying ==
    pc = "thread" =>
      /\ Len(thread) = Cardinality(Conversational)
      /\ \A i \in Conversational :
           /\ thread[ThreadRank(i)].uuid = entries[i].uuid
           /\ thread[ThreadRank(i)].type = entries[i].type
           /\ thread[ThreadRank(i)].timestamp = entries[i].timestamp
           /\ thread[ThreadRank(i)].content = entries[i].content
      /\ \A k \in 2..Len(thread) : thread[k - 1].timestamp <= thread[k].timestamp

C14_Witness ==
    /\ pc = "thread"
    /\ Len(entries) = 3
    /\ Len(thread) = 2
    /\ ~IsConversational(entries[2])
    /\ entries[1].timestamp = entries[3].timestamp
    /\ entries[2].timestamp < entries[1].timestamp
    /\ thread[1].content = 1 /\ thread[2].content = 3

BarsComputed == mmPc = "bars" /\ Len(contentLengths) > 0

FitsMinimum == minBarHeight * Len(contentLengths) <= totalHeight

\* C15: for a non-empty list of lengths with minBarHeight * count <=
\* totalHeight, the heights returned by computeBarHeights sum to
\* totalHeight.
C15_HeightsSumToTotal ==
    (BarsComputed /\ FitsMinimum) =>
      /\ Len(barHeights) = Len(contentLengths)
      /\ Sum(barHeights) = <<totalHeight, 1>>

\* One bar is clamped and the rest of the height is redistributed.
C15_Witness ==
    /\ BarsComputed /\ FitsMinimum
    /\ contentLengths = <<0, 1, 2>> /\ totalHeight = 6 /\ minBarHeight = 2
    /\ barHeights = <<<<2, 1>>, <<4, 3>>, <<8, 3>>>>

\* C16: for a non-empty list of lengths with minBarHeight * count <=
\* totalHeight, every height returned by computeBarHeights is at least
\* minBarHeight.
C16_EveryBarAtLeastMinimum ==
    (BarsComputed /\ FitsMinimum) =>
      \A i \in DOMAIN barHeights :
        barHeights[i][1] >= minBarHeight * barHeights[i][2]

AllPositive(heights) == \A i \in DOMAIN heights : Less(<<0, 1>>, heights[i])

Before(heights, k) == Sum(SubSeq(heights, 1, k))

\* C17: for a non-empty list of positive bar heights and an offset in
\* [0, sum), hitTestMessageIndex returns the index i with (sum of the
\* heights before i) <= offset < (sum of the heights through i); the index
\* does not decrease as the offset grows, it is the last index for an
\* offset at or beyond the sum, and it is 0 for an empty list.
C17_HitIsContainingBar ==
    mmPc = "hit" =>
      /\ Len(barHeights) = 0 => hitIndex = 0
      /\ (Len(barHeights) > 0 /\ AllPositive(barHeights)) =>
           /\ hitIndex \in 0..(Len(barHeights) - 1)
           /\ (~Less(clickY, <<0, 1>>) /\ Less(clickY, Sum(barHeights))) =>
                /\ ~Less(clickY, Before(barHeights, hitIndex))
                /\ Less(clickY, Before(barHeights, hitIndex + 1))
           /\ ~Less(clickY, Sum(barHeights)) => hitIndex = Len(barHeights) - 1
           /\ \A y \in ClickChoices(barHeights) :
                (~Less(y, <<0, 1>>) /\ ~Less(clickY, y)) =>
                  hitTestMessageIndex(y, barHeights) <= hitIndex

\* A click on the edge between the first and the second of three bars.
C17_Witness ==
    /\ mmPc = "hit"
    /\ Len(barHeights) = 3 /\ AllPositive(barHeights)
    /\ clickY = barHeights[1]
    /\ hitIndex = 1

\* C18: every branch descriptor returned by computeBranchLayout has
\* barFractions that sum to at most 0.3.
C18_BranchAtMostThirtyPercent ==
    mmPc = "layout" =>
      \A k \in DOMAIN branches : ~Less(<<3, 10>>, Sum(branches[k].barFractions))

\* The (branch point, path index) pairs with path index >= 1, in order.
Alternates ==
    Flatten([b \in DOMAIN layoutPoints |->
               [p \in 1..(Len(layoutPoints[b].paths) - 1) |-> <<b, p>>]])

\* C19: computeBranchLayout returns one descriptor for every path of index
\* >= 1 of every branch point and none for index 0, in branch-point order
\* then path order, each with the fork's uuid and with forkFraction = (sum
\* of mainBarHeights[0..messageIndex]) / (sum of mainBarHeights); it
\* returns the empty list when the main heights sum to zero.
C19_OneDescriptorPerAlternate ==
    mmPc = "layout" =>
      IF Sum(barHeights) = <<0, 1>> THEN branches = <<>>
      ELSE /\ Len(branches) = Len(Alternates)
           /\ \A k \in DOMAIN branches :
                LET bp == layoutPoints[Alternates[k][1]]
                IN /\ branches[k].pathIndex = Alternates[k][2]
                   /\ branches[k].pathIndex >= 1
                   /\ branches[k].forkUuid = bp.forkMessageUuid
                   /\ Len(branches[k].barFractions) = Len(bp.paths[Alternates[k][2] + 1])
                   /\ Times(branches[k].forkFraction, Sum(barHeights))
                        = Sum([i \in 1..(bp.messageIndex + 1) |-> barHeights[i]])

C19_Witness ==
    /\ mmPc = "layout"
    /\ Len(layoutPoints) = 2
    /\ Len(layoutPoints[1].paths) = 3 /\ Len(layoutPoints[2].paths) = 2
    /\ Len(branches) = 3
    /\ branches[2].pathIndex = 2 /\ branches[3].pathIndex = 1
    /\ branches[1].forkFraction = <<1, 3>>
    /\ branches[3].forkFraction = <<1, 1>>

Selection(b) ==
    IF branchPoints[b].forkMessageUuid \in DOMAIN pathSelections
    THEN pathSelections[branchPoints[b].forkMessageUuid] ELSE 0

Switched == {b \in DOMAIN branchPoints : Selection(b) # 0}

\* Position on the active path of the fork message of branch point b.
ForkPosition(b) ==
    CHOOSE i \in DOMAIN activePath : activePath[i].uuid = branchPoints[b].forkMessageUuid

\* C20: after any sequence of path switches the displayed list is a
\* function of the current selections: the active path when every
\* selection is 0, otherwise the active path up to and including the first
\* fork (in active-path order) with a non-zero selection, followed by the
\* selected path of that fork.
C20_DisplayedIsFunctionOfSelections ==
    pc = "view" =>
      IF Switched = {} THEN effectiveMessages = activePath
      ELSE LET b == Min(Switched)
           IN effectiveMessages =
                SubSeq(activePath, 1, ForkPosition(b))
                  \o branchPoints[b].paths[Selection(b) + 1]

\* Two forks, both switched to an alternate: the first one decides.
C20_Witness ==
    /\ pc = "view"
    /\ Len(branchPoints) = 2
    /\ Selection(1) = 1 /\ Selection(2) = 1
    /\ Len(effectiveMessages) = 2
    /\ effectiveMessages # activePath

\* A view back on the default path after a switch.
C20_WitnessRestored ==
    /\ pc = "view"
    /\ Len(branchPoints) = 2
    /\ DOMAIN pathSelections # {} /\ Switched = {}
    /\ effectiveMessages = activePath

\* C21: an import (first import or rescan) leaves the hidden flag of every
\* project row and every session row that was already in the index as it
\* was, also when the session's row is rewritten for a newer mtime and when
\* shouldAutoHide(name) disagrees with the stored flag; only a project row
\* inserted by this import gets its flag from shouldAutoHide.
C21_RescanPreservesHidden ==
    [][ImportFromDataDir =>
         /\ \A d \in DOMAIN projects :
               d \in DOMAIN projects' /\ projects'[d].hidden = projects[d].hidden
         /\ \A s \in DOMAIN sessions :
               s \in DOMAIN sessions' /\ sessions'[s].hidden = sessions[s].hidden
         /\ \A d \in DOMAIN projects' \ DOMAIN projects :
               projects'[d].hidden = shouldAutoHide(projects'[d].name)]_vars

\* A rescan has just rewritten the row of a hidden session for a newer
\* mtime, in an index where a project's flag disagrees with the rule.
C21_Witness ==
    /\ lastOp.op = "import"
    /\ \E s \in lastOp.rewritten :
          sessions[s].hidden /\ sessions[s].file_mtime = diskMtime[s]
    /\ \E d \in DOMAIN projects :
          projects[d].hidden # shouldAutoHide(projects[d].name)

\* The sessions that belong to a project named projectName.
SessionsOf(projectName) ==
    {s \in DOMAIN sessions :
        /\ sessions[s].project_dir_id \in DOMAIN projects
        /\ projects[sessions[s].project_dir_id].name = projectName}

\* C22: right after setProjectHidden(name, h) every project row with that
\* name and every session of such a project has hidden = h; with h = true
\* the four queries with includeHidden = false return none of them, with
\* h = false they return all of them (searchSessions: those the query
\* matches).
C22_SetProjectHiddenCascades ==
    lastOp.op = "setProjectHidden" =>
        LET n == lastOp.name
            h == lastOp.hidden
            listed == {p.name : p \in getProjects(Db, FALSE)}
        IN /\ \A d \in DOMAIN projects : projects[d].name = n => projects[d].hidden = h
           /\ \A s \in SessionsOf(n) : sessions[s].hidden = h
           /\ h => /\ n \notin listed
                   /\ SessionsOf(n) \cap getAllSessions(Db, FALSE) = {}
                   /\ getSessionsByProject(Db, n, FALSE) = {}
                   /\ \A q \in Queries : SessionsOf(n) \cap searchSessions(Db, q, FALSE) = {}
           /\ ~h => /\ (\E d \in DOMAIN projects : projects[d].name = n) => n \in listed
                    /\ SessionsOf(n) \subseteq getAllSessions(Db, FALSE)
                    /\ getSessionsByProject(Db, n, FALSE) = SessionsOf(n)
                    /\ \A q \in Queries :
                          searchSessions(Db, q, FALSE) \cap SessionsOf(n)
                              = searchSessions(Db, q, TRUE) \cap SessionsOf(n)

\* Two projects share the name just hidden, each with a session of its own.
C22_Witness ==
    /\ lastOp.op = "setProjectHidden"
    /\ lastOp.hidden
    /\ Cardinality({d \in DOMAIN projects : projects[d].name = lastOp.name}) = 2
    /\ Cardinality({sessions[s].project_dir_id : s \in SessionsOf(lastOp.name)}) = 2

\* The same two projects shown again, their sessions back in the search.
C22_WitnessShown ==
    /\ lastOp.op = "setProjectHidden"
    /\ ~lastOp.hidden
    /\ Cardinality({sessions[s].project_dir_id : s \in SessionsOf(lastOp.name)}) = 2
    /\ SessionsOf(lastOp.name) \cap searchSessions(Db, "fix", FALSE) # {}

\* C28: in every state reached by imports, rescans and setProjectHidden
\* calls, no session whose project is hidden is returned by getAllSessions
\* or by searchSessions with includeHidden = false.
C28_NoSessionOfHiddenProjectListed ==
    \A s \in DOMAIN sessions :
        (/\ sessions[s].project_dir_id \in DOMAIN projects
         /\ projects[sessions[s].project_dir_id].hidden)
        => /\ s \notin getAllSessions(Db, FALSE)
           /\ \A q \in Queries : s \notin searchSessions(Db, q, FALSE)

Reachable == Below(nodes, Range(roots))

\* C24: every qualifying message of the batch (one per distinct uuid) is
\* reachable from the roots buildMessageTree returns, and is placed exactly
\* once along the way, whatever the parentUuid values are (own uuid and
\* cycles included).
C24_EveryMessageReachableOnce ==
    Built =>
      \A u \in QualifyingUuids :
        /\ u \in Reachable
        /\ Count(roots, u) + Placements(u) = 1

\* The nodes strictly below node k.
Descendants(k) == Below(nodes, Range(nodes.children[k]))

\* C25: buildMessageTree, resolveActivePath and getBranchPoints terminate on
\* every batch, cyclic and self-referential parents included: the recursive
\* helpers start at the roots and descend through children, and no node
\* reachable from the roots is its own descendant, so every descent is
\* finite; the active path and every branch path are no longer than the
\* number of nodes.
C25_DescentIsWellFounded ==
    /\ Built => \A k \in Reachable : k \notin Descendants(k)
    /\ Resolved => Len(activePath) <= Len(nodes.keys)
    /\ Branched =>
         \A b \in DOMAIN branchPoints :
            \A p \in DOMAIN branchPoints[b].paths :
               Len(branchPoints[b].paths[p]) <= Len(nodes.keys)

\* All three functions returned on a batch holding a parent cycle next to a
\* root that has a child.
C25_Witness ==
    /\ Branched
    /\ \E k \in Range(nodes.keys) : k \in Descendants(k)
    /\ \E r \in Range(roots) : nodes.children[r] # <<>>
    /\ Len(activePath) >= 2

\* Node child hangs in the children list of node parent.
IsChildOf(child, parent) == Count(nodes.children[parent], child) > 0

\* C26: every path of every BranchPoint starts at a child of the fork,
\* follows parent links message by message and ends at a leaf; a path of
\* index >= 1 (an alternate) has no message in common with the active path.
C26_PathsAreChainsOffTheActivePath ==
    Branched =>
      \A b \in DOMAIN branchPoints :
        LET bp == branchPoints[b]
        IN \A p \in DOMAIN bp.paths :
             LET path == bp.paths[p]
             IN /\ path # <<>>
                /\ IsChildOf(path[1].uuid, bp.forkMessageUuid)
                /\ path[1].parentUuid = bp.forkMessageUuid
                /\ \A i \in 2..Len(path) :
                      /\ IsChildOf(path[i].uuid, path[i - 1].uuid)
                      /\ path[i].parentUuid = path[i - 1].uuid
                /\ nodes.children[path[Len(path)].uuid] = <<>>
                /\ p >= 2 =>
                      Range(UuidsOf(path)) \cap Range(UuidsOf(activePath)) = {}

\* A fork whose alternate path is a chain of two messages.
C26_Witness ==
    /\ Branched
    /\ \E b \in DOMAIN branchPoints :
          /\ Len(branchPoints[b].paths) >= 2
          /\ Len(branchPoints[b].paths[2]) >= 2

\* --------------------------------------------- session view: claims
\* C27: every scroll request is eventually completed: whenever
\* scrollToIndex is not null, it eventually returns to null.
C27_ScrollEventuallyCompletes == (scrollToIndex # NoIndex) ~> (scrollToIndex = NoIndex)

\* The selection stored for every fork is an index of a path of that
\* fork's BranchPoint in the data on display.
SelectionsInRange ==
    \A u \in DOMAIN pathSelections :
        \E b \in DOMAIN branchPoints :
            /\ branchPoints[b].forkMessageUuid = u
            /\ pathSelections[u] \in 0..(Len(branchPoints[b].paths) - 1)

\* C29: after any sequence of switcher clicks and minimap branch clicks the
\* selection stored for every fork is an index in [0, paths.length - 1] of
\* that fork's BranchPoint, and the effect that follows a change of the
\* viewed session leaves the selections empty.
C29_SelectionsInRangeAndReset ==
    [][((pc' = "view" /\ effectSession' = viewedSession') => SelectionsInRange')
       /\ ((effectSession' # effectSession) => (pathSelections' = <<>>))]_vars

\* A fork of three paths showing its last path in the second session viewed.
C29_Witness ==
    /\ pc = "view"
    /\ viewedSession = 2
    /\ effectSession = 2
    /\ \E b \in DOMAIN branchPoints :
         /\ Len(branchPoints[b].paths) = 3
         /\ branchPoints[b].forkMessageUuid \in DOMAIN pathSelections
         /\ pathSelections[branchPoints[b].forkMessageUuid] = 2

====
